---- MODULE Spec2Model ----
(***************************************************************************)
(* EinsumDense (keras/layers/core/einsum_dense.py): the einsum-equation    *)
(* analyzers, the int8 quantization bookkeeping built on them, and the     *)
(* build / enable_lora / quantize / save / load lifecycle of one layer.    *)
(*                                                                         *)
(* Python values are modelled as follows.  A string is a sequence of       *)
(* one-character strings.  A list or tuple is a sequence; the integers it  *)
(* holds (axes, positions) keep Python's 0-based values.  A call that can  *)
(* raise returns a record with ok = FALSE and the exception's class.       *)
(***************************************************************************)
EXTENDS Integers, Sequences, FiniteSets, TLC

VARIABLES equation, bias_axes, input_shape, partial_output_shape, cfg, layer, store, last, an

vars == <<equation, bias_axes, input_shape, partial_output_shape, cfg, layer, store, last, an>>

(***************************************************************************)
(* Bounds of the model.                                                    *)
(***************************************************************************)
\* longest input / weight / output spec of a generated equation
MaxSpecLen == 3
\* longest spec of an equation whose gradient is computed
MaxGradSpecLen == 2
\* most axes an ellipsis stands for when build computes its shapes
MaxShapeElided == 3
\* largest absolute value of an element of a tensor that is quantized
MaxAbsValue == 2
\* most axes an ellipsis stands for
MaxElided == 1
\* longest dtype policy name, in tokens, that quantize may build
MaxPolicyTokens == 6
\* longest kernel value, in tokens, that load_own_variables is given
MaxTermLen == 12

\* Python's None as a dimension (an unknown size)
NoneDim == -1

(***************************************************************************)
(* Python built-ins on sequences.                                          *)
(***************************************************************************)
Raise(cls) == [ok |-> FALSE, err |-> cls]

\* the value of a local assigned once: TheOne({e(x) : x \in {v}}) is e(v), with v
\* evaluated once
TheOne(S) == CHOOSE x \in S : TRUE

Range(s) == {s[i] : i \in DOMAIN s}

\* str.find / the index of the first occurrence, -1 when absent
PyFind(s, ch) ==
    IF \E i \in DOMAIN s : s[i] = ch
    THEN (CHOOSE i \in DOMAIN s : s[i] = ch /\ \A j \in 1..(i - 1) : s[j] # ch) - 1
    ELSE -1

\* list.insert(index, x): a negative index counts from the end, and the
\* position is clamped to [0, len]
PyInsert(list, index, x) ==
    LET n == Len(list)
        i0 == IF index < 0
              THEN (IF index + n < 0 THEN 0 ELSE index + n)
              ELSE (IF index > n THEN n ELSE index)
    IN SubSeq(list, 1, i0) \o <<x>> \o SubSeq(list, i0 + 1, n)

\* list[index] for index >= 0 (0-based)
PyAt(list, index) == list[index + 1]

\* a Python value handed to len(): a tuple has a length, an int has none
PyInt(n) == [type |-> "int", val |-> n]
PyTuple(s) == [type |-> "tuple", val |-> s]
PyLen(v) == IF v.type = "tuple" THEN [ok |-> TRUE, val |-> Len(v.val)] ELSE Raise("TypeError")

(***************************************************************************)
(* The alphabet.  string.ascii_letters sorted is A..Z then a..z; the model *)
(* keeps the first letters of each case, in that order.                    *)
(***************************************************************************)
SortedLetters == <<"A", "B", "C", "D", "a", "b", "c", "d">>
Letters == Range(SortedLetters)
IsLetter(ch) == ch \in Letters

\* sorted(set(possible_labels) - set(input_spec) - set(weight_spec) - set(output_spec))
RECURSIVE FilterSeq(_, _)
FilterSeq(s, drop) ==
    IF s = <<>> THEN <<>>
    ELSE IF Head(s) \in drop THEN FilterSeq(Tail(s), drop)
         ELSE <<Head(s)>> \o FilterSeq(Tail(s), drop)

(***************************************************************************)
(* re.sub(r"\.\.\.", "0", equation) and the three re.match patterns.       *)
(* re.match anchors at the start of the string only.                       *)
(***************************************************************************)
RECURSIVE DotReplace(_)
DotReplace(s) ==
    IF s = <<>> THEN <<>>
    ELSE IF Len(s) >= 3 /\ s[1] = "." /\ s[2] = "." /\ s[3] = "."
         THEN <<"0">> \o DotReplace(SubSeq(s, 4, Len(s)))
         ELSE <<Head(s)>> \o DotReplace(Tail(s))

\* length of the longest run of letters of s that starts at position i (1-based)
RECURSIVE LetterRun(_, _)
LetterRun(s, i) ==
    IF i <= Len(s) /\ IsLetter(s[i]) THEN 1 + LetterRun(s, i + 1) ELSE 0

Lit(s, i, ch) == i <= Len(s) /\ s[i] = ch

NoMatch == [matched |-> FALSE]

\* the match of the pattern on a string whose letter groups start at p1, p2 and p3
MatchAt(s, left, right, min) ==
    LET p1 == IF left THEN 2 ELSE 1
        n1 == LetterRun(s, p1)
        q1 == p1 + n1
        c1 == IF right THEN q1 + 1 ELSE q1
        p2 == c1 + 1
        n2 == LetterRun(s, p2)
        a1 == p2 + n2
        p3 == IF left THEN a1 + 3 ELSE a1 + 2
        n3 == LetterRun(s, p3)
    IN IF /\ (left => Lit(s, 1, "0"))
          /\ n1 >= min
          /\ (right => Lit(s, q1, "0"))
          /\ Lit(s, c1, ",")
          /\ n2 >= 1
          /\ Lit(s, a1, "-") /\ Lit(s, a1 + 1, ">")
          /\ (left => Lit(s, a1 + 2, "0"))
          /\ n3 >= 1
          /\ (right => Lit(s, p3 + n3, "0"))
       THEN [matched |-> TRUE,
             g1 |-> SubSeq(s, p1, p1 + n1 - 1),
             g2 |-> SubSeq(s, p2, p2 + n2 - 1),
             g3 |-> SubSeq(s, p3, p3 + n3 - 1)]
       ELSE NoMatch


\* "L? ([a-zA-Z]{min,}) R? , ([a-zA-Z]+) -> L? ([a-zA-Z]+) R?" where L is a leading
\* "0" (left) and R a trailing "0" (right).  Every letter group is followed by a
\* character that is no letter, so the greedy group is the whole run.
MatchPattern(str, left, right, min) ==
    TheOne({MatchAt(s, left, right, min) : s \in {str}})

\* "([a-zA-Z]+),([a-zA-Z]+)->([a-zA-Z]+)"
MatchNoEllipsis(s) == MatchPattern(s, FALSE, FALSE, 1)
\* "0([a-zA-Z]+),([a-zA-Z]+)->0([a-zA-Z]+)"
MatchLeftElided(s) == MatchPattern(s, TRUE, FALSE, 1)
\* "([a-zA-Z]{2,})0,([a-zA-Z]+)->([a-zA-Z]+)0"
MatchRightElided(s) == MatchPattern(s, FALSE, TRUE, 2)

(***************************************************************************)
(* _analyze_quantization_info.get_specs                                    *)
(***************************************************************************)
Reverse(s) == [i \in 1..Len(s) |-> s[Len(s) + 1 - i]]

\* possible_labels[0 .. elided-1]; an index past the end raises IndexError
PadLabels(possible, elided) ==
    IF elided <= 0 THEN [ok |-> TRUE, val |-> <<>>]
    ELSE IF elided > Len(possible) THEN Raise("IndexError")
    ELSE [ok |-> TRUE, val |-> SubSeq(possible, 1, elided)]

ElidedSpecs(m, shape_arg, left) ==
    LET n == PyLen(shape_arg)
        possible == FilterSeq(SortedLetters, Range(m.g1) \cup Range(m.g2) \cup Range(m.g3))
    IN IF ~n.ok THEN n
       ELSE TheOne({
            IF ~pad.ok THEN pad
            ELSE [ok |-> TRUE,
                  input_spec |-> IF left THEN Reverse(pad.val) \o m.g1 ELSE m.g1 \o pad.val,
                  weight_spec |-> m.g2,
                  output_spec |-> IF left THEN Reverse(pad.val) \o m.g3 ELSE m.g3 \o pad.val]
            : pad \in {PadLabels(possible, n.val - Len(m.g1))} })

get_specs(eq, shape_arg) ==
    TheOne({
        IF m1.matched
        THEN [ok |-> TRUE, input_spec |-> m1.g1, weight_spec |-> m1.g2, output_spec |-> m1.g3]
        ELSE IF m2.matched THEN ElidedSpecs(m2, shape_arg, TRUE)
        ELSE IF m3.matched THEN ElidedSpecs(m3, shape_arg, FALSE)
        ELSE Raise("ValueError")
        : m1 \in {MatchNoEllipsis(DotReplace(eq))},
          m2 \in {MatchLeftElided(DotReplace(eq))},
          m3 \in {MatchRightElided(DotReplace(eq))} })

(***************************************************************************)
(* _analyze_quantization_info                                              *)
(***************************************************************************)
\* positions i of spec (ascending, 0-based) with output_spec.find(spec[i]) == -1
RECURSIVE ReducedFrom(_, _, _)
ReducedFrom(spec, output_spec, i) ==
    IF i > Len(spec) THEN <<>>
    ELSE (IF PyFind(output_spec, spec[i]) = -1 THEN <<i - 1>> ELSE <<>>)
         \o ReducedFrom(spec, output_spec, i + 1)

\* the same positions counted from 1
ReducedAxesFromOne(spec, output_spec) ==
    [k \in DOMAIN ReducedFrom(spec, output_spec, 1) |-> ReducedFrom(spec, output_spec, 1)[k] + 1]

ReducedAxes(spec, output_spec) == ReducedFrom(spec, output_spec, 1)

\* output positions i (0-based) with spec.find(output_spec[i]) == -1
RECURSIVE ExpandFrom(_, _, _)
ExpandFrom(spec, output_spec, i) ==
    IF i > Len(output_spec) THEN <<>>
    ELSE (IF PyFind(spec, output_spec[i]) = -1 THEN <<i - 1>> ELSE <<>>)
         \o ExpandFrom(spec, output_spec, i + 1)

ExpandAxes(spec, output_spec) == ExpandFrom(spec, output_spec, 1)

\* the list with the position in the output spec appended, where the code appends
\* the position in the operand's spec
TransposeAxesByOutputPosition(spec, output_spec) ==
    FilterSeq([k \in DOMAIN output_spec |->
                  IF PyFind(spec, output_spec[k]) # -1 THEN k - 1 ELSE -1], {-1})

\* for each output label found in spec, in output order, its index in spec
RECURSIVE TransposeFrom(_, _, _)
TransposeFrom(spec, output_spec, i) ==
    IF i > Len(output_spec) THEN <<>>
    ELSE (IF PyFind(spec, output_spec[i]) # -1 THEN <<PyFind(spec, output_spec[i])>> ELSE <<>>)
         \o TransposeFrom(spec, output_spec, i + 1)

TransposeAxes(spec, output_spec) == TransposeFrom(spec, output_spec, 1)

\* a pass that leaves the loop body on IndexError, without the insert
PostStepContinue(st, ori_index) ==
    LET popped == st.expand # <<>>
    IN IF popped
       THEN [expand |-> Tail(st.expand), squeeze |-> st.squeeze,
             transpose |-> PyInsert(st.transpose, Head(st.expand), ori_index),
             index |-> Head(st.expand)]
       ELSE [st EXCEPT !.squeeze = Append(st.squeeze, ori_index)]

\* One pass of the loop "for ori_index in reduced_axes": pop the first expand slot
\* into the local `index`; on IndexError the axis goes to squeeze_axes and `index`
\* keeps the value it had; then transpose_axes.insert(index, ori_index).
PostStep(st, ori_index) ==
    LET popped == st.expand # <<>>
        index == IF popped THEN Head(st.expand) ELSE st.index
    IN [expand |-> IF popped THEN Tail(st.expand) ELSE st.expand,
        squeeze |-> IF popped THEN st.squeeze ELSE Append(st.squeeze, ori_index),
        transpose |-> PyInsert(st.transpose, index, ori_index),
        index |-> index]

RECURSIVE Postprocess(_, _)
Postprocess(st, reduced) ==
    IF reduced = <<>> THEN st
    ELSE TheOne({Postprocess(next, Tail(reduced)) : next \in {PostStep(st, Head(reduced))}})

\* The function body after get_specs.  The local `index` is shared by all the loops:
\* when the first correction loop starts it holds output_spec.find(weight_spec[-1]).
AnalyzeSpecs(input_spec, weight_spec, output_spec) ==
    TheOne({ TheOne({ TheOne({
        [ok |-> TRUE,
         input_spec |-> input_spec,
         weight_spec |-> weight_spec,
         output_spec |-> output_spec,
         input_reduced_axes |-> input_reduced_axes,
         weight_reduced_axes |-> weight_reduced_axes,
         input_transpose_axes |-> inp.transpose,
         weight_transpose_axes |-> wgt.transpose,
         input_expand_axes |-> inp.expand,
         weight_expand_axes |-> wgt.expand,
         input_squeeze_axes |-> inp.squeeze,
         weight_squeeze_axes |-> wgt.squeeze,
         custom_gradient_equation |->
             output_spec \o <<",">> \o weight_spec \o <<"-", ">">> \o input_spec]
        : wgt \in {Postprocess([expand |-> ExpandAxes(weight_spec, output_spec),
                                squeeze |-> <<>>,
                                transpose |-> TransposeAxes(weight_spec, output_spec),
                                index |-> inp.index],
                               weight_reduced_axes)} })
        : inp \in {Postprocess([expand |-> ExpandAxes(input_spec, output_spec),
                                squeeze |-> <<>>,
                                transpose |-> TransposeAxes(input_spec, output_spec),
                                index |-> PyFind(output_spec, weight_spec[Len(weight_spec)])],
                               input_reduced_axes)} })
        : input_reduced_axes \in {ReducedAxes(input_spec, output_spec)},
          weight_reduced_axes \in {ReducedAxes(weight_spec, output_spec)} })

analyze_quantization_info(eq, shape_arg) ==
    TheOne({
        IF ~sp.ok THEN sp
        ELSE TheOne({AnalyzeSpecs(i, w, o) : i \in {sp.input_spec}, w \in {sp.weight_spec},
                                             o \in {sp.output_spec}})
        : sp \in {get_specs(eq, shape_arg)} })

(***************************************************************************)
(* _analyze_einsum_string and _analyze_split_string: the kernel shape, the *)
(* bias shape and the full output shape of build.                          *)
(***************************************************************************)
PyNone == [type |-> "None"]
PyStr(s) == [type |-> "str", val |-> s]

\* list[k] with Python's negative indices; out of range raises IndexError
PyGet(list, k) ==
    IF k >= 0 /\ k < Len(list) THEN [ok |-> TRUE, val |-> list[k + 1]]
    ELSE IF k < 0 /\ k >= -Len(list) THEN [ok |-> TRUE, val |-> list[Len(list) + k + 1]]
    ELSE Raise("IndexError")

\* {dim: i for i, dim in enumerate(spec)}[ch]: the last position wins
LastIndex(spec, ch) ==
    (CHOOSE i \in DOMAIN spec : spec[i] = ch /\ \A j \in (i + 1)..Len(spec) : spec[j] # ch) - 1

\* the full output shape: the batch dimension, then the user's output_shape, with the
\* elided input dimensions inserted one by one at position 1 (ellipsis on the left)
\* or appended (otherwise)
FullOutputShape(in_shape, out_shape, elided, left_elided) ==
    LET base == <<in_shape[1]>> \o out_shape
    IN IF elided > 0 /\ left_elided
       THEN <<in_shape[1]>> \o Reverse(SubSeq(in_shape, 2, elided)) \o out_shape
       ELSE IF elided > 0 /\ ~left_elided
       THEN base \o SubSeq(in_shape, Len(in_shape) - elided + 1, Len(in_shape))
       ELSE base

InputDimIndex(input_spec, in_shape, elided, left_elided, dim) ==
    IF left_elided THEN (LastIndex(input_spec, dim) + elided) - Len(in_shape)
    ELSE LastIndex(input_spec, dim)

OutputDimIndex(output_spec, elided, left_elided, dim) ==
    IF left_elided THEN LastIndex(output_spec, dim) + elided
    ELSE LastIndex(output_spec, dim)

\* the loop "for dim in input_spec" from position i on: the first exception it raises
RECURSIVE SharedDimCheck(_, _, _, _, _, _, _)
SharedDimCheck(input_spec, output_spec, in_shape, full, elided, left_elided, i) ==
    IF i > Len(input_spec) THEN [ok |-> TRUE]
    ELSE LET dim == input_spec[i]
             a == PyGet(in_shape, InputDimIndex(input_spec, in_shape, elided, left_elided, dim))
             b == PyGet(full, OutputDimIndex(output_spec, elided, left_elided, dim))
         IN IF ~a.ok THEN a
            ELSE IF dim \in Range(output_spec) /\ ~b.ok THEN b
            ELSE IF dim \in Range(output_spec) /\ b.val # NoneDim /\ b.val # a.val
                 THEN Raise("ValueError")
            ELSE SharedDimCheck(input_spec, output_spec, in_shape, full, elided, left_elided, i + 1)

\* the loop "for dim in weight_spec" from position i on
RECURSIVE WeightShapeFrom(_, _, _, _, _, _, _, _)
WeightShapeFrom(input_spec, weight_spec, output_spec, in_shape, full, elided, left_elided, i) ==
    IF i > Len(weight_spec) THEN [ok |-> TRUE, val |-> <<>>]
    ELSE LET dim == weight_spec[i]
             d == IF dim \in Range(input_spec)
                  THEN PyGet(in_shape, InputDimIndex(input_spec, in_shape, elided, left_elided, dim))
                  ELSE IF dim \in Range(output_spec)
                  THEN PyGet(full, OutputDimIndex(output_spec, elided, left_elided, dim))
                  ELSE Raise("ValueError")
             rest == WeightShapeFrom(input_spec, weight_spec, output_spec, in_shape, full,
                                     elided, left_elided, i + 1)
         IN IF ~d.ok THEN d
            ELSE IF ~rest.ok THEN rest
            ELSE [ok |-> TRUE, val |-> <<d.val>> \o rest.val]

Min(S) == CHOOSE x \in S : \A y \in S : x <= y

\* the branch "if bias_axes is not None"
\* the bias shape without the trailing 1 per elided axis
BiasShapeNoTrailingOnes(output_spec, full, elided, left_elided, bias) ==
    LET num_left_elided == IF left_elided THEN elided ELSE 0
        idx(ch) == PyGet(full, LastIndex(output_spec, ch) + num_left_elided)
        first == Min({PyFind(output_spec, bias[k]) : k \in DOMAIN bias})
        bias_output_spec == SubSeq(output_spec, first + 1, Len(output_spec))
    IN IF \E p \in DOMAIN output_spec : ~idx(output_spec[p]).ok THEN Raise("IndexError")
       ELSE IF \E k \in DOMAIN bias : bias[k] \notin Range(output_spec) THEN Raise("ValueError")
       ELSE IF bias = <<>> THEN Raise("ValueError")
       ELSE [ok |-> TRUE,
             val |-> [p \in DOMAIN bias_output_spec |->
                        IF bias_output_spec[p] \in Range(bias)
                        THEN idx(bias_output_spec[p]).val ELSE 1]]

BiasShape(output_spec, full, elided, left_elided, bias) ==
    LET num_left_elided == IF left_elided THEN elided ELSE 0
        idx(ch) == PyGet(full, LastIndex(output_spec, ch) + num_left_elided)
        first == Min({PyFind(output_spec, bias[k]) : k \in DOMAIN bias})
        bias_output_spec == SubSeq(output_spec, first + 1, Len(output_spec))
        ones == [k \in 1..(IF ~left_elided /\ elided > 0 THEN elided ELSE 0) |-> 1]
    IN IF \E p \in DOMAIN output_spec : ~idx(output_spec[p]).ok THEN Raise("IndexError")
       ELSE IF \E k \in DOMAIN bias : bias[k] \notin Range(output_spec) THEN Raise("ValueError")
       ELSE IF bias = <<>> THEN Raise("ValueError")
       ELSE [ok |-> TRUE,
             val |-> [p \in DOMAIN bias_output_spec |->
                        IF bias_output_spec[p] \in Range(bias)
                        THEN idx(bias_output_spec[p]).val ELSE 1] \o ones]

analyze_split_string(m, bias, in_shape, out_shape, left_elided) ==
    LET input_spec == m.g1
        weight_spec == m.g2
        output_spec == m.g3
        elided == Len(in_shape) - Len(input_spec)
        full == FullOutputShape(in_shape, out_shape, elided, left_elided)
        shared == SharedDimCheck(input_spec, output_spec, in_shape, full, elided, left_elided, 1)
        weight == WeightShapeFrom(input_spec, weight_spec, output_spec, in_shape, full,
                                  elided, left_elided, 1)
        bshape == BiasShape(output_spec, full, elided, left_elided, bias.val)
    IN IF in_shape = <<>> THEN Raise("IndexError")
       ELSE IF ~shared.ok THEN shared
       ELSE IF \E p \in DOMAIN output_spec :
                 output_spec[p] \notin Range(input_spec) /\ output_spec[p] \notin Range(weight_spec)
            THEN Raise("ValueError")
       ELSE IF ~weight.ok THEN weight
       ELSE IF bias.type # "None" /\ ~bshape.ok THEN bshape
       ELSE [ok |-> TRUE,
             weight_shape |-> weight.val,
             has_bias |-> bias.type # "None",
             bias_shape |-> IF bias.type # "None" THEN bshape.val ELSE <<>>,
             output_shape |-> full]

analyze_einsum_string(eq, bias, in_shape, out_shape) ==
    TheOne({
        IF m1.matched THEN analyze_split_string(m1, bias, in_shape, out_shape, FALSE)
        ELSE IF m2.matched THEN analyze_split_string(m2, bias, in_shape, out_shape, TRUE)
        ELSE IF m3.matched THEN analyze_split_string(m3, bias, in_shape, out_shape, FALSE)
        ELSE Raise("ValueError")
        : m1 \in {MatchNoEllipsis(DotReplace(eq))},
          m2 \in {MatchLeftElided(DotReplace(eq))},
          m3 \in {MatchRightElided(DotReplace(eq))} })

(***************************************************************************)
(* Shapes under the tensor ops the layer calls (ops.transpose,             *)
(* ops.expand_dims, ops.squeeze) and the shape of an abs-max scale.        *)
(***************************************************************************)
IsPermutation(axes, n) ==
    Len(axes) = n /\ \A k \in 0..(n - 1) : \E i \in DOMAIN axes : axes[i] = k

\* ops.transpose(x, axes): result.shape[i] == x.shape[axes[i]]
OpsTranspose(shape, axes) ==
    IF IsPermutation(axes, Len(shape))
    THEN [ok |-> TRUE, val |-> [i \in DOMAIN axes |-> shape[axes[i] + 1]]]
    ELSE Raise("ValueError")

\* ops.expand_dims(x, axis=axes): the result has len(shape) + len(axes) axes, a 1 at
\* each position of axes and the old sizes, in order, at the others
OpsExpandDims(shape, axes) ==
    LET n == Len(shape) + Len(axes)
        at == Range(axes)
        before(p) == Cardinality({q \in 0..(p - 1) : q \notin at})
    IN IF Cardinality(at) = Len(axes) /\ \A a \in at : a >= 0 /\ a < n
       THEN [ok |-> TRUE,
             val |-> [p \in 1..n |-> IF (p - 1) \in at THEN 1 ELSE shape[before(p - 1) + 1]]]
       ELSE Raise("ValueError")

RECURSIVE DropAxes(_, _, _)
DropAxes(shape, at, i) ==
    IF i > Len(shape) THEN <<>>
    ELSE (IF (i - 1) \in at THEN <<>> ELSE <<shape[i]>>) \o DropAxes(shape, at, i + 1)

\* ops.squeeze(x, axis=axes): every axis named must exist and have size 1
OpsSqueeze(shape, axes) ==
    LET at == Range(axes)
    IN IF \A a \in at : a >= 0 /\ a < Len(shape) /\ shape[a + 1] = 1
       THEN [ok |-> TRUE, val |-> DropAxes(shape, at, 1)]
       ELSE Raise("ValueError")

\* the scale of quantizers.abs_max_quantize(x, axis=axes): the maximum is taken with
\* keepdims, so each reduced axis keeps size 1
AbsMaxScaleShape(shape, axes) ==
    [i \in DOMAIN shape |-> IF (i - 1) \in Range(axes) THEN 1 ELSE shape[i]]

\* transpose and squeeze only: the expand_dims step left out
AlignScaleWithoutExpand(scale_shape, transpose_axes, expand_axes, squeeze_axes) ==
    TheOne({
        IF ~t.ok THEN t
        ELSE IF squeeze_axes # <<>> THEN OpsSqueeze(t.val, squeeze_axes) ELSE t
        : t \in {OpsTranspose(scale_shape, transpose_axes)} })

\* transpose, then expand_dims "if expand_axes", then squeeze "if squeeze_axes", as
\* quantize, quantized_call and _get_kernel_with_merged_lora apply them to a scale
AlignScale(scale_shape, transpose_axes, expand_axes, squeeze_axes) ==
    TheOne({
        IF ~t.ok THEN t
        ELSE TheOne({
            IF ~e.ok THEN e
            ELSE IF squeeze_axes # <<>> THEN OpsSqueeze(e.val, squeeze_axes) ELSE e
            : e \in {IF expand_axes # <<>> THEN OpsExpandDims(t.val, expand_axes) ELSE t} })
        : t \in {OpsTranspose(scale_shape, transpose_axes)} })

\* quantize(): kernel_scale of a kernel of shape kernel_shape under plan
QuantizeKernelScale(kernel_shape, plan) ==
    AlignScale(AbsMaxScaleShape(kernel_shape, plan.weight_reduced_axes),
               plan.weight_transpose_axes, plan.weight_expand_axes, plan.weight_squeeze_axes)

(***************************************************************************)
(* The inputs the model draws: equations over a few labels, and shapes     *)
(* that give every label a size of its own.                                *)
(***************************************************************************)
ModelLabels == {"a", "b", "c"}

DimOf(label) == CASE label = "a" -> 2 [] label = "b" -> 3 [] label = "c" -> 4 [] OTHER -> 5

Distinct(s) == \A i, j \in DOMAIN s : s[i] = s[j] => i = j

\* the specs of an operand: up to MaxSpecLen labels, none repeated
LabelSpecs == {s \in UNION {[1..n -> ModelLabels] : n \in 1..MaxSpecLen} : Distinct(s)}

Ellipsis == <<".", ".", ".">>

MakeEquation(kind, i, w, o) ==
    CASE kind = "left" -> Ellipsis \o i \o <<",">> \o w \o <<"-", ">">> \o Ellipsis \o o
      [] kind = "right" -> i \o Ellipsis \o <<",">> \o w \o <<"-", ">">> \o o \o Ellipsis
      [] OTHER -> i \o <<",">> \o w \o <<"-", ">">> \o o

Dims(spec) == [k \in DOMAIN spec |-> DimOf(spec[k])]

\* the sizes of e elided axes
ElidedDims(e) == [k \in 1..e |-> 5 + k]

MakeInputShape(kind, i, e) ==
    CASE kind = "left" -> ElidedDims(e) \o Dims(i)
      [] kind = "right" -> Dims(i) \o ElidedDims(e)
      [] OTHER -> Dims(i)

\* output_shape as the user gives it: without the batch axis and the elided axes
MakeOutputShape(kind, o, e) ==
    IF kind = "left" /\ e > 0 THEN Dims(o) ELSE Dims(Tail(o))

(***************************************************************************)
(* The layer.  A variable (weight) is a record: its dtype, shape,          *)
(* trainable flag and value; a value is a term, written as a sequence of   *)
(* tokens.  An attribute that was never assigned has set = FALSE.          *)
(***************************************************************************)
NoVar == [set |-> FALSE, dtype |-> "", shape |-> <<>>, trainable |-> FALSE, val |-> <<>>]
Var(dtype, shape, trainable, val) ==
    [set |-> TRUE, dtype |-> dtype, shape |-> shape, trainable |-> trainable, val |-> val]
\* self.bias = None
BiasNone == [set |-> TRUE, dtype |-> "None", shape |-> <<>>, trainable |-> FALSE, val |-> <<>>]

NoPlan == [set |-> FALSE]
NoQuantizer == [set |-> FALSE, axis |-> <<>>]

\* dtype policies: the class (FloatDTypePolicy or QuantizedDTypePolicy) and the name,
\* split at "_" into tokens
FloatPolicy(name) == [quantized |-> FALSE, name |-> name, mode |-> <<>>]
QuantizedPolicy(name) ==
    [quantized |-> TRUE, name |-> name,
     mode |-> IF \E i \in DOMAIN name : name[i] = "from"
              THEN SubSeq(name, 1, PyFind(name, "from")) ELSE name]

\* dtype_policies.get(identifier) for a string identifier
dtype_policies_get(identifier) ==
    IF "quantized" \in Range(identifier) THEN QuantizedPolicy(identifier)
    ELSE FloatPolicy(identifier)

Int8Mode == <<"int8">>

\* EinsumDense.__init__
NewLayer(policy, lora_rank) ==
    [built |-> FALSE,
     dtype_policy |-> policy,
     lora_rank |-> lora_rank,
     lora_enabled |-> FALSE,
     full_output_shape |-> <<>>,
     input_ndim |-> -1,
     kernel |-> NoVar,
     kernel_scale |-> NoVar,
     bias |-> NoVar,
     lora_kernel_a |-> NoVar,
     lora_kernel_b |-> NoVar,
     plan |-> NoPlan,
     inputs_quantizer |-> NoQuantizer,
     weights |-> <<>>]

\* Layer.add_weight(name=...) and Layer._untrack_variable: the names of the variables
\* the layer tracks, in the order they were added
Track(weights, name) == Append(weights, name)

RECURSIVE Untrack(_, _)
Untrack(weights, name) ==
    IF weights = <<>> THEN <<>>
    ELSE IF Head(weights) = name THEN Tail(weights)
    ELSE <<Head(weights)>> \o Untrack(Tail(weights), name)

Count(weights, name) == Cardinality({i \in DOMAIN weights : weights[i] = name})

\* the nine fields quantize and quantized_build assign from _analyze_quantization_info
PlanOf(info) ==
    [set |-> TRUE,
     input_reduced_axes |-> info.input_reduced_axes,
     kernel_reduced_axes |-> info.weight_reduced_axes,
     input_transpose_axes |-> info.input_transpose_axes,
     kernel_transpose_axes |-> info.weight_transpose_axes,
     input_expand_axes |-> info.input_expand_axes,
     kernel_expand_axes |-> info.weight_expand_axes,
     input_squeeze_axes |-> info.input_squeeze_axes,
     kernel_squeeze_axes |-> info.weight_squeeze_axes,
     custom_gradient_equation |-> info.custom_gradient_equation]

(***************************************************************************)
(* quantized_build: the shape arithmetic that sizes kernel_scale.          *)
(***************************************************************************)
RECURSIVE SortAsc(_)
SortAsc(s) ==
    IF s = <<>> THEN <<>>
    ELSE LET m == Min(Range(s))
             k == CHOOSE i \in DOMAIN s : s[i] = m
         IN <<m>> \o TheOne({SortAsc(rest)
                             : rest \in {SubSeq(s, 1, k - 1) \o SubSeq(s, k + 1, Len(s))}})

\* numpy's a[axes] for a list of indices
NpTake(shape, axes) ==
    IF \A i \in DOMAIN axes : PyGet(shape, axes[i]).ok
    THEN [ok |-> TRUE, val |-> [i \in DOMAIN axes |-> PyGet(shape, axes[i]).val]]
    ELSE Raise("IndexError")

\* for a in axes: shape.insert(a, 1)
RECURSIVE InsertOnes(_, _)
InsertOnes(shape, axes) ==
    IF axes = <<>> THEN shape
    ELSE TheOne({InsertOnes(next, Tail(axes)) : next \in {PyInsert(shape, Head(axes), 1)}})

\* for a in axes: shape.pop(a)
RECURSIVE PopAxes(_, _)
PopAxes(shape, axes) ==
    IF axes = <<>> THEN [ok |-> TRUE, val |-> shape]
    ELSE IF ~PyGet(shape, Head(axes)).ok THEN Raise("IndexError")
    ELSE LET a == IF Head(axes) < 0 THEN Head(axes) + Len(shape) ELSE Head(axes)
         IN TheOne({PopAxes(next, Tail(axes))
                    : next \in {SubSeq(shape, 1, a) \o SubSeq(shape, a + 2, Len(shape))}})

QuantizedBuildScaleShape(kernel_shape, reduced_axes, transpose_axes, expand_axes, squeeze_axes) ==
    TheOne({
        IF ~t.ok THEN t
        ELSE TheOne({PopAxes(inserted, Reverse(SortAsc(squeeze_axes)))
                     : inserted \in {InsertOnes(t.val, SortAsc(expand_axes))}})
        : t \in {NpTake(AbsMaxScaleShape(kernel_shape, reduced_axes), transpose_axes)} })

(***************************************************************************)
(* The lifecycle methods.  Each returns the layer as the call leaves it    *)
(* and the exception it raised ("none" when it returned).                  *)
(***************************************************************************)
Outcome(l, err) == [layer |-> l, err |-> err]

\* enable_lora with lora_kernel_b drawn at random, as lora_kernel_a is
AddLoraRandomB(l, rank) ==
    IF ~l.kernel.set THEN Outcome(l, "AttributeError")
    ELSE LET ks == l.kernel.shape
         IN Outcome([l EXCEPT
                !.lora_kernel_a = Var("float", SubSeq(ks, 1, Len(ks) - 1) \o <<rank>>, TRUE, <<"A">>),
                !.lora_kernel_b = Var("float", <<rank, ks[Len(ks)]>>, TRUE, <<"B">>),
                !.weights = Track(Track(l.weights, "lora_kernel_a"), "lora_kernel_b"),
                !.kernel.trainable = FALSE,
                !.lora_enabled = TRUE,
                !.lora_rank = rank], "none")

\* enable_lora past its three guards: the two add_weight calls and the assignments
AddLora(l, rank) ==
    IF ~l.kernel.set THEN Outcome(l, "AttributeError")
    ELSE LET ks == l.kernel.shape
         IN Outcome([l EXCEPT
                !.lora_kernel_a = Var("float", SubSeq(ks, 1, Len(ks) - 1) \o <<rank>>, TRUE, <<"A">>),
                !.lora_kernel_b = Var("float", <<rank, ks[Len(ks)]>>, TRUE, <<"0">>),
                !.weights = Track(Track(l.weights, "lora_kernel_a"), "lora_kernel_b"),
                !.kernel.trainable = FALSE,
                !.lora_enabled = TRUE,
                !.lora_rank = rank], "none")

enable_lora_twice(l, kernel_constraint, rank) ==
    IF kernel_constraint THEN Outcome(l, "ValueError")
    ELSE IF ~l.built THEN Outcome(l, "ValueError")
    ELSE AddLora(l, rank)

\* EinsumDense.enable_lora(rank) with the default initializers
enable_lora(l, kernel_constraint, rank) ==
    IF kernel_constraint THEN Outcome(l, "ValueError")
    ELSE IF ~l.built THEN Outcome(l, "ValueError")
    ELSE IF l.lora_enabled THEN Outcome(l, "ValueError")
    ELSE AddLora(l, rank)

\* EinsumDense.quantized_build(input_shape, mode), after build has set input_spec
quantized_build(l, eq, kernel_shape, mode) ==
    IF mode # Int8Mode THEN Outcome(l, "none")
    ELSE TheOne({
        IF ~info.ok THEN Outcome(l, info.err)
        ELSE TheOne({
            IF ~ss.ok THEN Outcome(l1, ss.err)
            ELSE Outcome([l1 EXCEPT !.kernel_scale = Var("float", ss.val, FALSE, <<"ones">>),
                                    !.weights = Track(l1.weights, "kernel_scale")],
                         "none")
            : l1 \in {[l EXCEPT !.plan = PlanOf(info),
                                !.inputs_quantizer = [set |-> TRUE, axis |-> <<-1>>],
                                !.kernel = Var("int8", kernel_shape, FALSE, <<"zeros">>),
                                !.weights = Track(l.weights, "kernel")]},
              ss \in {QuantizedBuildScaleShape(kernel_shape,
                          info.weight_reduced_axes, info.weight_transpose_axes,
                          info.weight_expand_axes, info.weight_squeeze_axes)} })
        : info \in {analyze_quantization_info(eq, PyInt(l.input_ndim))} })

\* EinsumDense.build(input_shape)
build(l, eq, bias, in_shape, out_shape, kernel_constraint) ==
    TheOne({
        IF ~sd.ok THEN Outcome(l, sd.err)
        ELSE TheOne({ TheOne({
            IF qb.err # "none" THEN qb
            ELSE TheOne({
                IF l2.lora_rank # 0 THEN enable_lora(l2, kernel_constraint, l2.lora_rank)
                ELSE Outcome(l2, "none")
                : l2 \in {[qb.layer EXCEPT
                             !.bias = IF sd.has_bias
                                      THEN Var("float", sd.bias_shape, TRUE, <<"B">>)
                                      ELSE BiasNone,
                             !.weights = IF sd.has_bias
                                         THEN Track(qb.layer.weights, "bias")
                                         ELSE qb.layer.weights,
                             !.built = TRUE]} })
            : qb \in {IF l1.dtype_policy.quantized
                      THEN quantized_build(l1, eq, sd.weight_shape, l1.dtype_policy.mode)
                      ELSE Outcome([l1 EXCEPT
                                      !.kernel = Var("float", sd.weight_shape, TRUE, <<"K">>),
                                      !.weights = Track(l1.weights, "kernel")],
                                   "none")} })
            : l1 \in {[l EXCEPT !.full_output_shape = sd.output_shape,
                                !.input_ndim = Len(in_shape)]} })
        : sd \in {analyze_einsum_string(eq, bias, in_shape, out_shape)} })

\* Layer._check_quantize_args(mode, compute_dtype) is not part of the sources at hand.
\* It is taken to raise on a layer that is not built and to return for "int8" on a
\* built one; for any other mode both outcomes are kept.
check_quantize_args(l, mode) ==
    IF ~l.built THEN {"ValueError"}
    ELSE IF mode = Int8Mode THEN {"none"}
    ELSE {"none", "ValueError"}

\* the tail of quantize: "Set new dtype policy"
SetQuantizedPolicy(l, mode) ==
    IF ~l.dtype_policy.quantized
    THEN [l EXCEPT !.dtype_policy = dtype_policies_get(mode \o <<"from">> \o l.dtype_policy.name)]
    ELSE l

\* the "int8" branch without the _untrack_variable call: the float kernel stays
\* among the tracked variables beside the int8 one
QuantizeInt8KeepingFloatKernel(l, eq, mode) ==
    TheOne({
        IF ~info.ok THEN Outcome(l, info.err)
        ELSE TheOne({
            IF ~ks.ok THEN Outcome(l1, ks.err)
            ELSE Outcome(SetQuantizedPolicy(
                     [l1 EXCEPT
                        !.kernel = Var("int8", l.kernel.shape, FALSE,
                                       <<"q8", "(">> \o l.kernel.val \o <<")">>),
                        !.kernel_scale = Var("float", ks.val, FALSE,
                                       <<"scale", "(">> \o l.kernel.val \o <<")">>),
                        !.weights = Track(Track(l.weights, "kernel"), "kernel_scale")],
                     mode), "none")
            : l1 \in {[l EXCEPT !.plan = PlanOf(info),
                                !.inputs_quantizer =
                                    [set |-> TRUE, axis |-> info.input_reduced_axes]]},
              ks \in {QuantizeKernelScale(l.kernel.shape, info)} })
        : info \in {analyze_quantization_info(eq, PyInt(l.input_ndim))} })

\* the "int8" branch of quantize past its guard on the kernel's dtype
QuantizeInt8(l, eq, mode) ==
    TheOne({
        IF ~info.ok THEN Outcome(l, info.err)
        ELSE TheOne({
            IF ~ks.ok THEN Outcome(l1, ks.err)
            ELSE Outcome(SetQuantizedPolicy(
                     [l1 EXCEPT
                        !.kernel = Var("int8", l.kernel.shape, FALSE,
                                       <<"q8", "(">> \o l.kernel.val \o <<")">>),
                        !.kernel_scale = Var("float", ks.val, FALSE,
                                       <<"scale", "(">> \o l.kernel.val \o <<")">>),
                        !.weights = Track(Track(Untrack(l.weights, "kernel"), "kernel"),
                                          "kernel_scale")],
                     mode), "none")
            : l1 \in {[l EXCEPT !.plan = PlanOf(info),
                                !.inputs_quantizer =
                                    [set |-> TRUE, axis |-> info.input_reduced_axes]]},
              ks \in {QuantizeKernelScale(l.kernel.shape, info)} })
        : info \in {analyze_quantization_info(eq, PyInt(l.input_ndim))} })

quantize_again(l, eq, mode, checked) ==
    IF checked # "none" THEN Outcome(l, checked)
    ELSE IF mode # Int8Mode THEN Outcome(SetQuantizedPolicy(l, mode), "none")
    ELSE IF ~l.kernel.set THEN Outcome(l, "AttributeError")
    ELSE QuantizeInt8(l, eq, mode)

\* EinsumDense.quantize(mode); checked is the outcome of _check_quantize_args
quantize(l, eq, mode, checked) ==
    IF checked # "none" THEN Outcome(l, checked)
    ELSE IF mode # Int8Mode THEN Outcome(SetQuantizedPolicy(l, mode), "none")
    ELSE IF ~l.kernel.set THEN Outcome(l, "AttributeError")
    ELSE IF l.kernel.dtype = "int8" THEN Outcome(l, "ValueError")
    ELSE QuantizeInt8(l, eq, mode)

\* a tensor as a store holds it
Tensor(dtype, shape, val) == [dtype |-> dtype, shape |-> shape, val |-> val]
TensorOf(v) == Tensor(v.dtype, v.shape, v.val)

\* ops.matmul(self.lora_kernel_a, self.lora_kernel_b)
LoraDelta(l) == l.lora_kernel_a.val \o <<"@">> \o l.lora_kernel_b.val

\* EinsumDense._get_kernel_with_merged_lora: (kernel_value, kernel_scale), or the
\* exception raised; has_scale is FALSE where kernel_scale is None
get_kernel_with_merged_lora(l) ==
    IF l.dtype_policy.quantized
    THEN IF ~l.kernel.set \/ ~l.kernel_scale.set THEN Raise("AttributeError")
         ELSE IF ~l.lora_enabled
         THEN [ok |-> TRUE, kernel_value |-> TensorOf(l.kernel),
               has_scale |-> TRUE, kernel_scale |-> TensorOf(l.kernel_scale)]
         ELSE TheOne({
                 IF ~ss.ok THEN ss
                 ELSE [ok |-> TRUE,
                       kernel_value |-> Tensor("int8", l.kernel.shape,
                                               <<"q8", "(">> \o merged \o <<")">>),
                       has_scale |-> TRUE,
                       kernel_scale |-> Tensor("float", ss.val,
                                               <<"scale", "(">> \o merged \o <<")">>)]
                 : merged \in {<<"(">> \o l.kernel.val \o <<"/">> \o l.kernel_scale.val
                               \o <<")", "+">> \o LoraDelta(l)},
                   ss \in {AlignScale(AbsMaxScaleShape(l.kernel.shape,
                                                       l.plan.kernel_reduced_axes),
                                      l.plan.kernel_transpose_axes, l.plan.kernel_expand_axes,
                                      l.plan.kernel_squeeze_axes)} })
    ELSE IF ~l.built \/ ~l.kernel.set THEN Raise("AttributeError")
    ELSE [ok |-> TRUE,
          kernel_value |-> IF l.lora_enabled
                           THEN Tensor(l.kernel.dtype, l.kernel.shape,
                                       l.kernel.val \o <<"+">> \o LoraDelta(l))
                           ELSE TensorOf(l.kernel),
          has_scale |-> FALSE,
          kernel_scale |-> Tensor("None", <<>>, <<>>)]

NoTensor == Tensor("", <<>>, <<>>)
EmptyStore == [keys |-> {}, t0 |-> NoTensor, t1 |-> NoTensor, t2 |-> NoTensor]

\* a save that assigns the merged kernel to the kernel variable
save_merging_into_kernel(l) ==
    TheOne({
        IF ~kv.ok THEN kv
        ELSE IF ~l.bias.set THEN Raise("AttributeError")
        ELSE [ok |-> TRUE,
             layer |-> [l EXCEPT !.kernel.val = kv.kernel_value.val],
             store |-> [keys |-> {"0"} \cup (IF l.bias.dtype # "None" THEN {"1"} ELSE {})
                                  \cup (IF l.dtype_policy.quantized THEN {"2"} ELSE {}),
                        t0 |-> kv.kernel_value,
                        t1 |-> IF l.bias.dtype # "None" THEN TensorOf(l.bias) ELSE NoTensor,
                        t2 |-> IF l.dtype_policy.quantized THEN kv.kernel_scale ELSE NoTensor]]
        : kv \in {get_kernel_with_merged_lora(l)} })

\* EinsumDense.save_own_variables(store) on an empty store: the store it leaves
\* and the layer after the call, or the exception raised
save_own_variables(l) ==
    TheOne({
        IF ~kv.ok THEN kv
        ELSE IF ~l.bias.set THEN Raise("AttributeError")
        ELSE [ok |-> TRUE,
             layer |-> l,
             store |-> [keys |-> {"0"} \cup (IF l.bias.dtype # "None" THEN {"1"} ELSE {})
                                  \cup (IF l.dtype_policy.quantized THEN {"2"} ELSE {}),
                        t0 |-> kv.kernel_value,
                        t1 |-> IF l.bias.dtype # "None" THEN TensorOf(l.bias) ELSE NoTensor,
                        t2 |-> IF l.dtype_policy.quantized THEN kv.kernel_scale ELSE NoTensor]]
        : kv \in {get_kernel_with_merged_lora(l)} })

\* a load that replaces the kernel by the stored tensor, dtype included, where
\* load_own_variables assigns the stored value to the variable
load_replacing_kernel(l, st) ==
    IF ~l.kernel.set THEN Outcome(l, "AttributeError")
    ELSE IF "0" \notin st.keys THEN Outcome(l, "KeyError")
    ELSE Outcome([l EXCEPT !.kernel.val = st.t0.val, !.kernel.dtype = st.t0.dtype], "none")

\* a load that leaves the LoRA matrices as they are
load_keeping_lora(l, st) ==
    IF ~l.kernel.set THEN Outcome(l, "AttributeError")
    ELSE IF "0" \notin st.keys THEN Outcome(l, "KeyError")
    ELSE LET l1 == [l EXCEPT !.kernel.val = st.t0.val]
             l2 == IF l1.bias.dtype # "None" THEN [l1 EXCEPT !.bias.val = st.t1.val] ELSE l1
             l3 == IF l2.dtype_policy.quantized
                   THEN [l2 EXCEPT !.kernel_scale.val = st.t2.val] ELSE l2
             l4 == l3
         IN IF ~l1.bias.set THEN Outcome(l1, "AttributeError")
            ELSE IF l1.bias.dtype # "None" /\ "1" \notin st.keys THEN Outcome(l1, "KeyError")
            ELSE IF l2.dtype_policy.quantized /\ ~l2.kernel_scale.set
                 THEN Outcome(l2, "AttributeError")
            ELSE IF l2.dtype_policy.quantized /\ "2" \notin st.keys THEN Outcome(l2, "KeyError")
            ELSE Outcome(l4, "none")

\* EinsumDense.load_own_variables(store)
load_own_variables(l, st) ==
    IF ~l.kernel.set THEN Outcome(l, "AttributeError")
    ELSE IF "0" \notin st.keys THEN Outcome(l, "KeyError")
    ELSE LET l1 == [l EXCEPT !.kernel.val = st.t0.val]
             l2 == IF l1.bias.dtype # "None" THEN [l1 EXCEPT !.bias.val = st.t1.val] ELSE l1
             l3 == IF l2.dtype_policy.quantized
                   THEN [l2 EXCEPT !.kernel_scale.val = st.t2.val] ELSE l2
             l4 == IF l3.lora_enabled
                   THEN [l3 EXCEPT !.lora_kernel_a.val = <<"0">>, !.lora_kernel_b.val = <<"0">>]
                   ELSE l3
         IN IF ~l1.bias.set THEN Outcome(l1, "AttributeError")
            ELSE IF l1.bias.dtype # "None" /\ "1" \notin st.keys THEN Outcome(l1, "KeyError")
            ELSE IF l2.dtype_policy.quantized /\ ~l2.kernel_scale.set
                 THEN Outcome(l2, "AttributeError")
            ELSE IF l2.dtype_policy.quantized /\ "2" \notin st.keys THEN Outcome(l2, "KeyError")
            ELSE Outcome(l4, "none")

\* EinsumDense.compute_output_shape(_)
compute_output_shape(l) == Outcome(l, "none")

\* EinsumDense.call(inputs) on inputs of the shape the layer was built for; the
\* kernel property raises on a layer that is not built
call(l) ==
    IF ~l.built \/ ~l.kernel.set THEN Outcome(l, "AttributeError")
    ELSE IF l.lora_enabled /\ (~l.lora_kernel_a.set \/ ~l.lora_kernel_b.set)
    THEN Outcome(l, "AttributeError")
    ELSE IF ~l.bias.set THEN Outcome(l, "AttributeError")
    ELSE Outcome(l, "none")

\* a shape with 1s in front, up to rank n
PadLeft(shape, n) == [k \in 1..(n - Len(shape)) |-> 1] \o shape

Max(a, b) == IF a >= b THEN a ELSE b

\* the shape of ops.divide(x, y): the two shapes aligned on the right and
\* broadcast; sizes that differ and are not 1 raise an error
OpsDivide(x_shape, y_shape) ==
    LET n == Max(Len(x_shape), Len(y_shape))
        x == PadLeft(x_shape, n)
        y == PadLeft(y_shape, n)
    IN IF \E k \in 1..n : x[k] # y[k] /\ x[k] # 1 /\ y[k] # 1 THEN Raise("ValueError")
       ELSE [ok |-> TRUE, val |-> [k \in 1..n |-> IF x[k] = 1 THEN y[k] ELSE x[k]]]

\* the axes an AbsMaxQuantizer reduces over for an input of rank ndim: a negative
\* axis counts from the last
QuantizerAxes(axis, ndim) ==
    {IF axis[k] < 0 THEN axis[k] + ndim ELSE axis[k] : k \in DOMAIN axis}

\* the shape of the scale that self.inputs_quantizer returns for the layer's input
InputsScaleShape(l, in_shape) ==
    [i \in DOMAIN in_shape |->
        IF (i - 1) \in QuantizerAxes(l.inputs_quantizer.axis, Len(in_shape))
        THEN 1 ELSE in_shape[i]]

\* EinsumDense.quantized_call(inputs) on inputs of the shape the layer was built
\* for: the shapes of the input scale through transpose, expand_dims and squeeze,
\* of its product with kernel_scale and of the de-scaled output
quantized_call(l, in_shape) ==
    IF ~l.kernel.set \/ ~l.kernel_scale.set THEN Outcome(l, "AttributeError")
    ELSE IF ~l.inputs_quantizer.set \/ ~l.plan.set THEN Outcome(l, "AttributeError")
    ELSE TheOne({
        IF ~sc.ok THEN Outcome(l, sc.err)
        ELSE TheOne({
            IF ~m.ok THEN Outcome(l, m.err)
            ELSE TheOne({
                IF ~d.ok THEN Outcome(l, d.err)
                ELSE IF l.lora_enabled /\ (~l.lora_kernel_a.set \/ ~l.lora_kernel_b.set)
                THEN Outcome(l, "AttributeError")
                ELSE IF ~l.bias.set THEN Outcome(l, "AttributeError")
                ELSE Outcome(l, "none")
                : d \in {OpsDivide(l.full_output_shape, m.val)} })
            : m \in {OpsDivide(sc.val, l.kernel_scale.shape)} })
        : sc \in {AlignScale(InputsScaleShape(l, in_shape), l.plan.input_transpose_axes,
                             l.plan.input_expand_axes, l.plan.input_squeeze_axes)} })

(***************************************************************************)
(* Specification Spec: one layer, from construction on, under any          *)
(* sequence of build, enable_lora, quantize, save_own_variables,           *)
(* load_own_variables and forward calls.  `last` records the last call:    *)
(* the method, its argument, the exception it raised and the layer as it   *)
(* was before.                                                             *)
(***************************************************************************)
Seq1(a) == <<a>>
Seq2(a, b) == <<a, b>>
Seq3(a, b, c) == <<a, b, c>>

\* the layers of the model: a dense layer, one with the ellipsis on the left, one with
\* it on the right, and a contraction over two axes that are not adjacent in the kernel
LayerCases ==
    { [kind |-> "none", i |-> Seq2("a", "b"), w |-> Seq2("b", "c"), o |-> Seq2("a", "c"), e |-> 0],
      [kind |-> "left", i |-> Seq1("b"), w |-> Seq2("b", "c"), o |-> Seq1("c"), e |-> 1],
      [kind |-> "right", i |-> Seq2("a", "b"), w |-> Seq2("b", "c"), o |-> Seq2("a", "c"), e |-> 1],
      [kind |-> "none", i |-> Seq3("a", "b", "c"), w |-> Seq3("b", "d", "c"),
       o |-> Seq2("a", "d"), e |-> 0] }

Float32Policy == FloatPolicy(Seq1("float32"))
Int8FromFloat32Policy == QuantizedPolicy(Seq3("int8", "from", "float32"))

\* the modes quantize is called with: "int8" and "dynamic_int8"
Modes == {Int8Mode, Seq2("dynamic", "int8")}

\* the ranks enable_lora is called with
LoraRanks == {2}

NoCall(l) == [op |-> "init", err |-> "none", pre |-> l, mode |-> <<>>, rank |-> 0]
Called(op, out, pre, mode, rank) ==
    [op |-> op, err |-> out.err, pre |-> pre, mode |-> mode, rank |-> rank]

AnalysisOff == [pc |-> "off"]

Init ==
    \E c \in LayerCases, withBias \in BOOLEAN, kc \in BOOLEAN,
       lr \in {0} \cup LoraRanks, pol \in {Float32Policy, Int8FromFloat32Policy} :
        /\ equation = MakeEquation(c.kind, c.i, c.w, c.o)
        /\ bias_axes = IF withBias THEN PyStr(Seq1(c.o[Len(c.o)])) ELSE PyNone
        /\ input_shape = MakeInputShape(c.kind, c.i, c.e)
        /\ partial_output_shape = MakeOutputShape(c.kind, c.o, c.e)
        /\ cfg = [kernel_constraint |-> kc, dtype_policy |-> pol]
        /\ layer = NewLayer(pol, lr)
        /\ store = EmptyStore
        /\ last = NoCall(NewLayer(pol, lr))
        /\ an = AnalysisOff

Frame == UNCHANGED <<equation, bias_axes, input_shape, partial_output_shape, cfg, an>>

\* the framework builds a layer once, on its first call
Build ==
    /\ ~layer.built
    /\ \E out \in {build(layer, equation, bias_axes, input_shape, partial_output_shape,
                           cfg.kernel_constraint)} :
          /\ layer' = out.layer
          /\ last' = Called("build", out, layer, <<>>, 0)
    /\ UNCHANGED store
    /\ Frame

EnableLora ==
    \E rank \in LoraRanks :
        /\ \E out \in {enable_lora(layer, cfg.kernel_constraint, rank)} :
              /\ layer' = out.layer
              /\ last' = Called("enable_lora", out, layer, <<>>, rank)
        /\ UNCHANGED store
        /\ Frame

Quantize ==
    \E mode \in Modes :
        \E checked \in check_quantize_args(layer, mode) :
            /\ \E out \in {quantize(layer, equation, mode, checked)} :
                  /\ Len(out.layer.dtype_policy.name) <= MaxPolicyTokens
                  /\ layer' = out.layer
                  /\ last' = Called("quantize", out, layer, mode, 0)
            /\ UNCHANGED store
            /\ Frame

Save ==
    /\ \E out \in {save_own_variables(layer)} :
          /\ store' = IF out.ok THEN out.store ELSE store
          /\ layer' = IF out.ok THEN out.layer ELSE layer
          /\ last' = [op |-> "save", err |-> IF out.ok THEN "none" ELSE out.err,
                      pre |-> layer, mode |-> <<>>, rank |-> 0]
    /\ Frame

\* a store written by another layer of the same configuration, holding the keys K
ForeignStore(l, K) ==
    [keys |-> K,
     t0 |-> IF "0" \in K THEN Tensor(l.kernel.dtype, l.kernel.shape, Seq1("F0")) ELSE NoTensor,
     t1 |-> IF "1" \in K THEN Tensor("float", l.bias.shape, Seq1("F1")) ELSE NoTensor,
     t2 |-> IF "2" \in K THEN Tensor("float", l.kernel_scale.shape, Seq1("F2")) ELSE NoTensor]

Load ==
    \E st \in {store} \cup {ForeignStore(layer, K) : K \in SUBSET {"0", "1", "2"}} :
        /\ Len(st.t0.val) <= MaxTermLen
        /\ \E out \in {load_own_variables(layer, st)} :
              /\ layer' = out.layer
              /\ last' = Called("load", out, layer,
                                 IF st = store THEN Seq1("store") ELSE Seq1("foreign"), 0)
        /\ UNCHANGED store
        /\ Frame

\* a forward pass of the built layer through call, and one through quantized_call
Call ==
    /\ layer.built
    /\ \E out \in {call(layer)} :
          /\ layer' = out.layer
          /\ last' = Called("call", out, layer, <<>>, 0)
    /\ UNCHANGED store
    /\ Frame

QuantizedCall ==
    /\ layer.built
    /\ \E out \in {quantized_call(layer, input_shape)} :
          /\ layer' = out.layer
          /\ last' = Called("quantized_call", out, layer, <<>>, 0)
    /\ UNCHANGED store
    /\ Frame

ComputeOutputShape ==
    /\ \E out \in {compute_output_shape(layer)} :
          /\ layer' = out.layer
          /\ last' = Called("compute_output_shape", out, layer, <<>>, 0)
    /\ UNCHANGED store
    /\ Frame

Next ==
    \/ Build \/ EnableLora \/ Quantize \/ Save \/ Load
    \/ Call \/ QuantizedCall \/ ComputeOutputShape

Spec == Init /\ [][Next]_vars

(***************************************************************************)
(* Properties of the lifecycle, checked under Spec.                        *)
(***************************************************************************)
QuantizeCalled(mode) == last.op = "quantize" /\ last.mode = mode

\* C1: quantize("int8") on a layer whose kernel is already int8 raises, and the
\* kernel, kernel_scale, the axis-plan fields, the input quantizer and the dtype
\* policy are what they were before the call.
C1_DoubleQuantizeRejected ==
    (QuantizeCalled(Int8Mode) /\ last.pre.kernel.set /\ last.pre.kernel.dtype = "int8")
        => /\ last.err # "none"
           /\ layer.kernel = last.pre.kernel
           /\ layer.kernel_scale = last.pre.kernel_scale
           /\ layer.plan = last.pre.plan
           /\ layer.inputs_quantizer = last.pre.inputs_quantizer
           /\ layer.dtype_policy = last.pre.dtype_policy
           /\ layer.weights = last.pre.weights

\* a second quantize("int8") on a layer that the first one quantized
C1_Witness ==
    /\ QuantizeCalled(Int8Mode)
    /\ ~cfg.dtype_policy.quantized
    /\ last.pre.kernel.set /\ last.pre.kernel.dtype = "int8"
    /\ last.pre.kernel.val[1] = "q8"
    /\ last.err = "ValueError"

\* C2: enable_lora on a layer that has LoRA enabled raises and leaves lora_kernel_a,
\* lora_kernel_b, lora_rank and the kernel with its trainable flag as they were; the
\* layer never tracks more than one adapter.
C2_SecondLoraRejected ==
    /\ (last.op = "enable_lora" /\ last.pre.lora_enabled)
           => /\ last.err # "none"
              /\ layer.lora_kernel_a = last.pre.lora_kernel_a
              /\ layer.lora_kernel_b = last.pre.lora_kernel_b
              /\ layer.lora_rank = last.pre.lora_rank
              /\ layer.kernel = last.pre.kernel
    /\ Count(layer.weights, "lora_kernel_a") <= 1
    /\ Count(layer.weights, "lora_kernel_b") <= 1
    /\ (layer.lora_enabled <=> Count(layer.weights, "lora_kernel_a") = 1)

C2_Witness ==
    /\ last.op = "enable_lora" /\ last.pre.lora_enabled
    /\ last.err = "ValueError"
    /\ Count(layer.weights, "lora_kernel_a") = 1

\* C3 (as claimed): quantize(mode) with a mode other than "int8" raises and leaves
\* the layer as it was: float kernel, no kernel_scale, the same dtype policy.
C3_UnsupportedModeRaises ==
    (last.op = "quantize" /\ last.mode # Int8Mode)
        => /\ last.err # "none"
           /\ layer.kernel = last.pre.kernel
           /\ layer.kernel_scale = last.pre.kernel_scale
           /\ layer.dtype_policy = last.pre.dtype_policy

\* C4 (as claimed): a lifecycle call that raises leaves every field of the layer as
\* it was before the call.
C4_RaiseBeforeMutation ==
    (last.op \in {"build", "enable_lora", "quantize", "load"} /\ last.err # "none")
        => layer = last.pre

\* the layer was built under a float policy and quantize("int8") turned its kernel int8
QuantizedByCall ==
    /\ ~cfg.dtype_policy.quantized
    /\ layer.built
    /\ layer.kernel.set /\ layer.kernel.dtype = "int8"
    /\ layer.kernel_scale.set

\* C5 (as claimed): once quantize("int8") has succeeded on a float layer,
\* save_own_variables writes the int8 kernel under "0", the bias under "1" exactly
\* when there is one, and the kernel scale under "2".
C5_SavesScaleAfterQuantize ==
    (last.op = "save" /\ last.err = "none" /\ QuantizedByCall)
        => /\ store.keys = {"0", "2"} \cup (IF layer.bias.dtype # "None" THEN {"1"} ELSE {})
           /\ store.t0.dtype = "int8"
           /\ store.t2.shape = layer.kernel_scale.shape
           /\ (layer.bias.dtype # "None" => store.t1 = TensorOf(layer.bias))

\* where the equation has its ellipsis, and its three explicit specs
Parsed(eq) ==
    TheOne({
        IF m1.matched THEN [side |-> "none"] @@ m1
        ELSE IF m2.matched THEN [side |-> "left"] @@ m2
        ELSE IF m3.matched THEN [side |-> "right"] @@ m3
        ELSE [side |-> "bad"]
        : m1 \in {MatchNoEllipsis(DotReplace(eq))},
          m2 \in {MatchLeftElided(DotReplace(eq))},
          m3 \in {MatchRightElided(DotReplace(eq))} })

\* quantize("int8") got as far as the quantization analysis, or build ran quantized_build
AnalysisInvoked ==
    \/ /\ QuantizeCalled(Int8Mode)
       /\ last.pre.built /\ last.pre.kernel.set /\ last.pre.kernel.dtype = "float"
    \/ /\ last.op = "build"
       /\ cfg.dtype_policy.quantized

\* C9 (as claimed): for an equation with an ellipsis and an input of rank n, the
\* analysis that quantize and quantized_build invoke replaces the ellipsis by
\* n - len(input spec) labels, the same in the input and the output spec, on the side
\* of the ellipsis, pairwise distinct and distinct from the explicit labels; no padded
\* axis is reported as reduced.
C9_EllipsisPaddedByInputRank ==
    LET m == Parsed(equation)
        elided == Len(input_shape) - Len(m.g1)
        left == m.side = "left"
    IN (AnalysisInvoked /\ m.side \in {"left", "right"} /\ elided >= 0)
        => /\ layer.plan.set
           /\ \E pad \in [1..elided -> Letters] :
                /\ Distinct(pad)
                /\ Range(pad) \cap (Range(m.g1) \cup Range(m.g2) \cup Range(m.g3)) = {}
                /\ layer.plan.custom_gradient_equation =
                       (IF left THEN pad \o m.g3 ELSE m.g3 \o pad)
                       \o <<",">> \o m.g2 \o <<"-", ">">>
                       \o (IF left THEN pad \o m.g1 ELSE m.g1 \o pad)
                /\ \A k \in 1..elided :
                       \A r \in DOMAIN layer.plan.input_reduced_axes :
                           layer.plan.input_reduced_axes[r] #
                               (IF left THEN k - 1 ELSE Len(m.g1) + k - 1)

(***************************************************************************)
(* The analysis on its own: the equations over ModelLabels, each taken     *)
(* through _analyze_einsum_string (build), _analyze_quantization_info and  *)
(* the kernel-scale steps of quantize.  The layer is not involved.         *)
(***************************************************************************)
NotRun == Raise("not run")

EllipsisKinds == {"none", "left", "right"}

\* _analyze_quantization_info is handed input_spec.ndim by quantize and quantized_build;
\* its parameter is named input_shape, and it is also drawn with the shape itself
ShapeArgs(shape) == {PyInt(Len(shape)), PyTuple(shape)}

InitAnalysis ==
    \E kind \in EllipsisKinds, i \in LabelSpecs, w \in LabelSpecs, o \in LabelSpecs,
       e \in 0..MaxElided :
        /\ kind = "none" => e = 0
        /\ equation = MakeEquation(kind, i, w, o)
        /\ bias_axes = PyNone
        /\ input_shape = MakeInputShape(kind, i, e)
        /\ partial_output_shape = MakeOutputShape(kind, o, e)
        /\ cfg = [kernel_constraint |-> FALSE, dtype_policy |-> Float32Policy]
        /\ layer = NewLayer(Float32Policy, 0)
        /\ store = EmptyStore
        /\ last = NoCall(NewLayer(Float32Policy, 0))
        /\ \E arg \in ShapeArgs(input_shape) :
              an = [pc |-> "start", arg |-> arg, shapes |-> NotRun, info |-> NotRun,
                    kernel_scale |-> NotRun]

FrameAnalysis ==
    UNCHANGED <<equation, bias_axes, input_shape, partial_output_shape, cfg, layer,
                store, last>>

AnalyzeEinsum ==
    /\ an.pc = "start"
    /\ an' = [an EXCEPT !.pc = "shaped",
                        !.shapes = analyze_einsum_string(equation, bias_axes, input_shape,
                                                         partial_output_shape)]
    /\ FrameAnalysis

AnalyzeQuantization ==
    /\ an.pc = "shaped"
    /\ an.shapes.ok
    /\ an' = [an EXCEPT !.pc = "planned",
                        !.info = analyze_quantization_info(equation, an.arg)]
    /\ FrameAnalysis

ScaleKernel ==
    /\ an.pc = "planned"
    /\ an.info.ok
    /\ an' = [an EXCEPT !.pc = "scaled",
                        !.kernel_scale = QuantizeKernelScale(an.shapes.weight_shape, an.info)]
    /\ FrameAnalysis

NextAnalysis == AnalyzeEinsum \/ AnalyzeQuantization \/ ScaleKernel

SpecAnalysis == InitAnalysis /\ [][NextAnalysis]_vars

\* the positions (from 0) of spec whose label satisfies Keep
Positions(spec, Keep(_)) == {k - 1 : k \in {j \in DOMAIN spec : Keep(spec[j])}}

Ascending(s) == \A j, k \in DOMAIN s : j < k => s[j] < s[k]

\* C8: the reduced axes of the input are the ascending list of the positions of the
\* (ellipsis-expanded) input spec whose label is not in the output spec, and the same
\* holds of the weight spec.
C8_ReducedAxesAreAbsentLabels ==
    (an.pc \in {"planned", "scaled"} /\ an.info.ok) =>
        LET out == Range(an.info.output_spec)
            Absent(label) == label \notin out
        IN /\ Ascending(an.info.input_reduced_axes)
           /\ Range(an.info.input_reduced_axes) = Positions(an.info.input_spec, Absent)
           /\ Ascending(an.info.weight_reduced_axes)
           /\ Range(an.info.weight_reduced_axes) = Positions(an.info.weight_spec, Absent)

C8_Witness ==
    /\ an.pc = "planned"
    /\ an.info.ok
    /\ Len(an.info.input_spec) > Len(Parsed(equation).g1)
    /\ Len(an.info.input_reduced_axes) = 2
    /\ an.info.weight_reduced_axes # <<>>
    /\ Len(an.info.weight_reduced_axes) < Len(an.info.weight_spec)

\* C7: for an accepted equation whose specs repeat no label, the transpose axes plus
\* the expand axes that remain minus the squeeze axes number the labels of the output
\* spec, for the input and for the weight.
C7_AxisCountsMatchOutputRank ==
    (/\ an.pc \in {"planned", "scaled"}
     /\ an.info.ok
     /\ Distinct(an.info.input_spec)
     /\ Distinct(an.info.weight_spec)
     /\ Distinct(an.info.output_spec))
    => /\ Len(an.info.input_transpose_axes) + Len(an.info.input_expand_axes)
              - Len(an.info.input_squeeze_axes) = Len(an.info.output_spec)
       /\ Len(an.info.weight_transpose_axes) + Len(an.info.weight_expand_axes)
              - Len(an.info.weight_squeeze_axes) = Len(an.info.output_spec)

C7_Witness ==
    /\ an.pc = "planned"
    /\ an.info.ok
    /\ Distinct(an.info.input_spec)
    /\ Distinct(an.info.weight_spec)
    /\ Distinct(an.info.output_spec)
    /\ Len(an.info.input_spec) > Len(Parsed(equation).g1)
    /\ an.info.input_squeeze_axes # <<>>
    /\ an.info.weight_expand_axes # <<>>

\* the shape of a kernel scale aligned with the output: the kernel's size on the axes
\* of the output labels the kernel has, and 1 on the others
OutputAligned(kernel_shape, weight_spec, output_spec) ==
    [p \in DOMAIN output_spec |->
        IF output_spec[p] \in Range(weight_spec)
        THEN kernel_shape[PyFind(weight_spec, output_spec[p]) + 1]
        ELSE 1]

\* C6 (as claimed): for every equation and kernel shape accepted at build, the
\* transpose, expand and squeeze steps that quantize applies to the kernel scale are
\* each valid (a permutation, no squeeze of an axis of size other than 1), and the
\* scale they give is aligned with the output spec.  Stated of a quantize("int8")
\* whose analysis has returned: it goes through, and kernel_scale has that shape.
C6_KernelScaleStepsValid ==
    (/\ QuantizeCalled(Int8Mode)
     /\ last.pre.built
     /\ last.pre.kernel.set
     /\ last.pre.kernel.dtype = "float"
     /\ layer.plan.set)
    => LET g == Parsed(layer.plan.custom_gradient_equation)
       IN /\ last.err = "none"
          /\ layer.kernel_scale.set
          /\ layer.kernel_scale.shape = OutputAligned(last.pre.kernel.shape, g.g2, g.g1)

(***************************************************************************)
(* The gradient of quantized_call.  A tensor is its shape and a function   *)
(* from the index tuples of the shape (from 0) to integers.                *)
(***************************************************************************)
Indices(shape) ==
    {idx \in [DOMAIN shape -> 0..(DimOf("other") - 1)] : \A k \in DOMAIN shape : idx[k] < shape[k]}

RECURSIVE SumFn(_, _)
SumFn(f, S) ==
    IF S = {} THEN 0
    ELSE LET x == CHOOSE y \in S : TRUE IN f[x] + SumFn(f, S \ {x})

\* ops.einsum of two operands: s1,s2->s3
Einsum(s1, s2, s3, T1, T2) ==
    LET L == Range(s1) \cup Range(s2)
        Size(l) == IF l \in Range(s1) THEN T1.shape[PyFind(s1, l) + 1]
                   ELSE T2.shape[PyFind(s2, l) + 1]
        valid == /\ Len(s1) = Len(T1.shape)
                 /\ Len(s2) = Len(T2.shape)
                 /\ Range(s3) \subseteq L
                 /\ Distinct(s3)
                 /\ \A q \in DOMAIN s1 : T1.shape[q] = Size(s1[q])
                 /\ \A q \in DOMAIN s2 : T2.shape[q] = Size(s2[q])
        Asg == {a \in [L -> 0..(DimOf("other") - 1)] : \A l \in L : a[l] < Size(l)}
        term == [a \in Asg |-> T1.val[[q \in DOMAIN s1 |-> a[s1[q]]]]
                               * T2.val[[q \in DOMAIN s2 |-> a[s2[q]]]]]
        out_shape == [q \in DOMAIN s3 |-> Size(s3[q])]
    IN IF ~valid THEN Raise("ValueError")
       ELSE [ok |-> TRUE,
             shape |-> out_shape,
             val |-> [o \in Indices(out_shape) |->
                         SumFn(term, {a \in Asg : \A q \in DOMAIN s3 : a[s3[q]] = o[q]})]]

EinsumOf(eq, T1, T2) ==
    LET m == Parsed(eq)
    IN IF m.side # "none" THEN Raise("ValueError") ELSE Einsum(m.g1, m.g2, m.g3, T1, T2)

\* the tensor of this shape that is 1 at one index and 0 elsewhere
UnitTensor(shape, at) ==
    [ok |-> TRUE, shape |-> shape, val |-> [idx \in Indices(shape) |-> IF idx = at THEN 1 ELSE 0]]

\* the position of idx among the indices of shape, in row-major order
RECURSIVE RowMajor(_, _, _, _)
RowMajor(shape, idx, k, acc) ==
    IF k > Len(shape) THEN acc
    ELSE RowMajor(shape, idx, k + 1, acc * shape[k] + idx[k])

\* a kernel of small integers, all different
KernelTensor(shape) ==
    [ok |-> TRUE, shape |-> shape, val |-> [idx \in Indices(shape) |-> 1 + RowMajor(shape, idx, 1, 0)]]

\* grad_fn of quantized_call: einsum(custom_gradient_equation, upstream, float_kernel)
grad_fn(custom_gradient_equation, upstream, float_kernel) ==
    EinsumOf(custom_gradient_equation, upstream, float_kernel)

\* the gradient with respect to the input of sum(upstream * einsum(eq, input, kernel)):
\* the forward contraction is linear in the input, so the component at idx is the
\* forward contraction of the unit tensor at idx, paired with upstream
InputGradient(eq, in_shape, kernel, upstream) ==
    [idx \in Indices(in_shape) |->
        LET y == EinsumOf(eq, UnitTensor(in_shape, idx), kernel)
        IN SumFn([o \in Indices(upstream.shape) |-> upstream.val[o] * y.val[o]],
                 Indices(upstream.shape))]

GradSpecs == {s \in LabelSpecs : Len(s) <= MaxGradSpecLen}

InitGrad ==
    \E i \in GradSpecs, w \in GradSpecs, o \in GradSpecs :
        /\ equation = MakeEquation("none", i, w, o)
        /\ bias_axes = PyNone
        /\ input_shape = MakeInputShape("none", i, 0)
        /\ partial_output_shape = MakeOutputShape("none", o, 0)
        /\ cfg = [kernel_constraint |-> FALSE, dtype_policy |-> Float32Policy]
        /\ layer = NewLayer(Float32Policy, 0)
        /\ store = EmptyStore
        /\ last = NoCall(NewLayer(Float32Policy, 0))
        /\ an = [pc |-> "start", arg |-> PyInt(Len(input_shape)), shapes |-> NotRun,
                 info |-> NotRun, kernel_scale |-> NotRun, upstream |-> NotRun,
                 kernel |-> NotRun, inputs_grad |-> NotRun]

\* backpropagation through quantized_call: grad_fn is handed an upstream gradient
\* shaped like the output
GradFn ==
    /\ an.pc = "planned"
    /\ an.info.ok
    /\ \E at \in Indices(an.shapes.output_shape) :
          LET upstream == UnitTensor(an.shapes.output_shape, at)
              kernel == KernelTensor(an.shapes.weight_shape)
          IN an' = [an EXCEPT !.pc = "grad",
                              !.upstream = upstream,
                              !.kernel = kernel,
                              !.inputs_grad = grad_fn(an.info.custom_gradient_equation,
                                                      upstream, kernel)]
    /\ FrameAnalysis

NextGrad == AnalyzeEinsum \/ AnalyzeQuantization \/ GradFn

SpecGrad == InitGrad /\ [][NextGrad]_vars

\* the forward contraction of the layer is defined on its input and kernel shapes
ForwardDefined ==
    EinsumOf(equation, UnitTensor(input_shape, [k \in DOMAIN input_shape |-> 0]), an.kernel).ok

\* C10 (as claimed): for every equation accepted at build, the reciprocal equation
\* "output_spec,weight_spec->input_spec" applied to an upstream gradient shaped like
\* the output and the weight is the gradient of einsum(equation, input, weight) with
\* respect to the input.
C10_ReciprocalIsInputGradient ==
    (an.pc = "grad" /\ ForwardDefined)
    => /\ an.inputs_grad.ok
       /\ an.inputs_grad.shape = input_shape
       /\ an.inputs_grad.val = InputGradient(equation, input_shape, an.kernel, an.upstream)

(***************************************************************************)
(* The equations as strings: an ellipsis may stand before and after each   *)
(* of the three specs, and characters may follow the output spec.          *)
(***************************************************************************)
Dots(on) == IF on THEN Ellipsis ELSE <<>>

\* places is a function from 1..6 to BOOLEAN: an ellipsis before / after the input
\* spec, the weight spec and the output spec
MakeLooseEquation(places, i, w, o, tail) ==
    Dots(places[1]) \o i \o Dots(places[2]) \o <<",">>
    \o Dots(places[3]) \o w \o Dots(places[4]) \o <<"-", ">">>
    \o Dots(places[5]) \o o \o Dots(places[6]) \o tail

\* what may follow the output spec
Tails == {<<>>, <<"!">>}

InitParse ==
    \E places \in [1..6 -> BOOLEAN], i \in GradSpecs, tail \in Tails :
        /\ equation = MakeLooseEquation(places, i, <<"b", "c">>, <<"a", "c">>, tail)
        /\ bias_axes = PyNone
        /\ input_shape = Dims(i)
        /\ partial_output_shape = <<DimOf("c")>>
        /\ cfg = [kernel_constraint |-> FALSE, dtype_policy |-> Float32Policy]
        /\ layer = NewLayer(Float32Policy, 0)
        /\ store = EmptyStore
        /\ last = NoCall(NewLayer(Float32Policy, 0))
        /\ \E arg \in ShapeArgs(input_shape) :
              an = [pc |-> "start", arg |-> arg, shapes |-> NotRun, info |-> NotRun,
                    kernel_scale |-> NotRun]

NextParse == AnalyzeEinsum \/ AnalyzeQuantization

SpecParse == InitParse /\ [][NextParse]_vars

AllLetters(s) == s # <<>> /\ \A k \in DOMAIN s : IsLetter(s[k])

\* the whole string is X,Y->Z or ...X,Y->...Z or X...,Y->Z... with X, Y, Z non-empty
\* runs of letters
WellFormed(eq) ==
    \E kind \in EllipsisKinds, n1 \in 1..Len(eq), n2 \in 1..Len(eq), n3 \in 1..Len(eq) :
        LET lead == IF kind = "left" THEN 3 ELSE 0
            trail == IF kind = "right" THEN 3 ELSE 0
            X == SubSeq(eq, lead + 1, lead + n1)
            y0 == lead + n1 + trail + 1
            Y == SubSeq(eq, y0 + 1, y0 + n2)
            z0 == y0 + n2 + 2 + lead
            Z == SubSeq(eq, z0 + 1, z0 + n3)
        IN /\ z0 + n3 + trail = Len(eq)
           /\ AllLetters(X) /\ AllLetters(Y) /\ AllLetters(Z)
           /\ eq = MakeEquation(kind, X, Y, Z)

\* C11 (as claimed): build and the quantization analysis accept an equation only when
\* the whole string has one of the three forms; every other string is rejected with a
\* ValueError.
C11_OnlyWellFormedAccepted ==
    ~WellFormed(equation) =>
        /\ an.pc \in {"shaped", "planned"}
               => (~an.shapes.ok /\ an.shapes.err = "ValueError")
        /\ an.pc = "planned" => (~an.info.ok /\ an.info.err = "ValueError")

(***************************************************************************)
(* build on its own: one layer per equation, input shape, output_shape     *)
(* and bias_axes; the shapes are those of the labels, or differ from them  *)
(* in one place (a dimension that is None, an output dimension of another  *)
(* size, an input of another rank).                                        *)
(***************************************************************************)
\* a size no label has
OtherDim == DimOf("other") + 4

ShapeVariants(base_in, base_out) ==
    {<<base_in, base_out>>}
    \cup {<<[base_in EXCEPT ![k] = NoneDim], base_out>> : k \in DOMAIN base_in}
    \cup {<<base_in, [base_out EXCEPT ![k] = NoneDim]>> : k \in DOMAIN base_out}
    \cup {<<base_in, [base_out EXCEPT ![k] = OtherDim]>> : k \in DOMAIN base_out}
    \cup {<<SubSeq(base_in, 1, r), base_out>> : r \in 1..(Len(base_in) - 1)}
    \cup {<<base_in \o <<OtherDim>>, base_out>>}

\* the labels of a spec stand in alphabetical order
InOrder(x) == x = FilterSeq(SortedLetters, Letters \ Range(x))

\* bias_axes: None, or a string of labels
BiasStrings ==
    {PyNone, PyStr(<<>>)}
    \cup {PyStr(b) : b \in {x \in LabelSpecs : Len(x) <= 2 /\ InOrder(x)}}

\* every output label is an input or a weight label, every weight label an
\* input or an output label: the equations whose build can succeed
Covered(i, w, o) ==
    /\ Range(o) \subseteq (Range(i) \cup Range(w))
    /\ Range(w) \subseteq (Range(i) \cup Range(o))

InitBuild(varied, biased) ==
    \E kind \in EllipsisKinds, i \in GradSpecs, w \in GradSpecs, o \in GradSpecs,
       e \in 0..MaxShapeElided :
        /\ kind = "none" => e = 0
        /\ Covered(i, w, o)
        \* the bias shape does not depend on the order of the weight labels
        /\ biased => InOrder(w)
        /\ equation = MakeEquation(kind, i, w, o)
        /\ \E v \in IF varied
                    THEN ShapeVariants(MakeInputShape(kind, i, e), MakeOutputShape(kind, o, e))
                    ELSE {<<MakeInputShape(kind, i, e), MakeOutputShape(kind, o, e)>>} :
              /\ input_shape = v[1]
              /\ partial_output_shape = v[2]
        /\ bias_axes \in (IF biased THEN BiasStrings ELSE {PyNone})
        /\ cfg = [kernel_constraint |-> FALSE, dtype_policy |-> Float32Policy]
        /\ layer = NewLayer(Float32Policy, 0)
        /\ store = EmptyStore
        /\ last = NoCall(NewLayer(Float32Policy, 0))
        /\ an = AnalysisOff

InitShapes == InitBuild(TRUE, FALSE)

SpecShapes == InitShapes /\ [][Build]_vars

InitBias == InitBuild(FALSE, TRUE)

SpecBias == InitBias /\ [][Build]_vars

\* the equation of the layer, the position of a label in a spec and the number
\* of axes the ellipsis stands for
Eq == Parsed(equation)
Pos(spec, d) == CHOOSE k \in DOMAIN spec : spec[k] = d
ElidedAxes == Len(input_shape) - Len(Eq.g1)
LeftShift == IF Eq.side = "left" THEN ElidedAxes ELSE 0

\* the input has a rank the equation allows, and output_shape one size per
\* output label that is neither the batch axis nor elided
RankConsistent ==
    /\ Eq.side # "bad"
    /\ ElidedAxes >= 0
    /\ Eq.side = "none" => ElidedAxes = 0
    /\ Len(partial_output_shape) = Len(Eq.g3) - (IF LeftShift > 0 THEN 0 ELSE 1)

\* the size of a label in the input, and in the output the caller asked for
\* (the batch axis comes from the input)
InputSizeOf(d) == input_shape[Pos(Eq.g1, d) + LeftShift]
OutputSizeOf(d) ==
    IF LeftShift > 0 THEN partial_output_shape[Pos(Eq.g3, d)]
    ELSE (<<input_shape[1]>> \o partial_output_shape)[Pos(Eq.g3, d)]

\* without elided axes in front, the first label of both specs is the batch axis
BatchLeads == LeftShift = 0 => Eq.g1[1] = Eq.g3[1]

SharedLabels == Range(Eq.g1) \cap Range(Eq.g3)
Clash(d) ==
    /\ InputSizeOf(d) # NoneDim
    /\ OutputSizeOf(d) # NoneDim
    /\ InputSizeOf(d) # OutputSizeOf(d)

\* C12: for the labels shared by the input and the output spec, build raises
\* ValueError when the two sizes of a label are both known and differ, and raises
\* no mismatch error when, for every shared label, the sizes agree or one of the
\* two is None.
C12_MismatchOnlyWhenBothKnown ==
    (last.op = "build" /\ RankConsistent /\ BatchLeads) =>
        /\ (\E d \in SharedLabels : Clash(d)) => last.err = "ValueError"
        /\ (\A d \in SharedLabels : ~Clash(d)) => last.err # "ValueError"

\* the input has a rank the equation cannot take: not one axis per input label
\* without an ellipsis, fewer axes than input labels with one
RankInconsistent ==
    /\ Eq.side # "bad"
    /\ \/ Eq.side = "none" /\ ElidedAxes # 0
       \/ Eq.side \in {"left", "right"} /\ ElidedAxes < 0

\* C13: build of an input whose rank is inconsistent with the equation raises
\* ValueError and leaves the layer without kernel and without output shape.
C13_RankMismatchRejected ==
    (last.op = "build" /\ RankInconsistent) =>
        /\ last.err = "ValueError"
        /\ ~layer.kernel.set
        /\ layer.full_output_shape = <<>>

\* the output label of an axis of the full output shape; "." for an elided axis
OutputLabelAt(axis) ==
    IF axis - LeftShift \in DOMAIN Eq.g3 THEN Eq.g3[axis - LeftShift] ELSE "."

BiasLabels == IF bias_axes.type = "str" THEN Range(bias_axes.val) ELSE {}

BuiltWithBias ==
    /\ last.op = "build" /\ last.err = "none"
    /\ bias_axes.type = "str"

\* the axis of the full output shape that axis k of the bias lines up with when
\* the two shapes are aligned on the right
AlignedAxis(k) == Len(layer.full_output_shape) - Len(layer.bias.shape) + k

\* C14: after a successful build with bias_axes, the bias shape aligned on the
\* right of the full output shape starts at the first output axis that bears a
\* bias label and runs to the last axis, with the output's size at the axes that
\* bear a bias label and 1 at every other axis (the elided axes of a right
\* ellipsis among them); a bias label that is not an output label makes build
\* raise ValueError.
C14_BiasShapeAlignsRight ==
    /\ BuiltWithBias =>
        /\ layer.bias.set /\ layer.bias.dtype = "float"
        /\ Len(layer.bias.shape) <= Len(layer.full_output_shape)
        /\ OutputLabelAt(AlignedAxis(1)) \in BiasLabels
        /\ \A axis \in 1..(AlignedAxis(1) - 1) : OutputLabelAt(axis) \notin BiasLabels
        /\ \A k \in DOMAIN layer.bias.shape :
              layer.bias.shape[k] = IF OutputLabelAt(AlignedAxis(k)) \in BiasLabels
                                    THEN layer.full_output_shape[AlignedAxis(k)]
                                    ELSE 1
    /\ (last.op = "build" /\ Eq.side # "bad" /\ ~(BiasLabels \subseteq Range(Eq.g3)))
          => last.err = "ValueError"

\* a right ellipsis of at least one axis, and a bias on some but not all labels
C14_Witness ==
    /\ BuiltWithBias
    /\ Eq.side = "right" /\ ElidedAxes >= 1
    /\ Len(layer.bias.shape) >= 3
    /\ Len(layer.bias.shape) < Len(layer.full_output_shape)
    /\ \E k \in DOMAIN layer.bias.shape : layer.bias.shape[k] # 1

\* the elided dimensions of the input, in input order, where the ellipsis stood
ElidedInPlace ==
    IF Eq.side = "left"
    THEN SubSeq(input_shape, 1, ElidedAxes) \o partial_output_shape
    ELSE <<input_shape[1]>> \o partial_output_shape
         \o SubSeq(input_shape, Len(input_shape) - ElidedAxes + 1, Len(input_shape))

\* C15: after the build of an ellipsis equation, the full output shape is the
\* input's elided dimensions followed by output_shape for a left ellipsis, and
\* the batch dimension, output_shape and the input's elided dimensions for a
\* right ellipsis.
C15_ElidedDimsInInputOrder ==
    (/\ last.op = "build" /\ last.err = "none"
     /\ Eq.side \in {"left", "right"}
     /\ RankConsistent
     /\ ElidedAxes >= 1)
        => layer.full_output_shape = ElidedInPlace

(***************************************************************************)
(* Dequantization: ops.divide(kernel, kernel_scale), on shapes.            *)
(***************************************************************************)
\* the layer holds an int8 kernel that quantize("int8") or quantized_build made
Int8Layer ==
    /\ last.op \in {"quantize", "build"} /\ last.err = "none"
    /\ layer.kernel.set /\ layer.kernel.dtype = "int8"
    /\ layer.kernel_scale.set /\ layer.plan.set

\* C16: kernel / kernel_scale, as the gradient rule and the LoRA merge compute
\* it, has the shape of the kernel, and the scale lies along the kernel's axes
\* as abs-max quantization made it: size 1 at a reduced axis and the kernel's
\* size at every other axis (every label of the model has a size of its own, so
\* equal sizes mean the same quantization group).
C16_DequantizedKernelGroupwise ==
    Int8Layer =>
        LET d == OpsDivide(layer.kernel.shape, layer.kernel_scale.shape)
        IN /\ d.ok
           /\ d.val = layer.kernel.shape
           /\ PadLeft(layer.kernel_scale.shape, Len(layer.kernel.shape))
                 = AbsMaxScaleShape(layer.kernel.shape, layer.plan.kernel_reduced_axes)

\* C17: whichever way the layer got its input quantizer (quantize("int8") or
\* build under an int8 policy), the quantizer reduces over exactly
\* input_reduced_axes, and the input scale has that shape.
C17_InputQuantizerUsesReducedAxes ==
    (layer.inputs_quantizer.set /\ layer.plan.set) =>
        /\ QuantizerAxes(layer.inputs_quantizer.axis, Len(input_shape))
              = Range(layer.plan.input_reduced_axes)
        /\ InputsScaleShape(layer, input_shape)
              = AbsMaxScaleShape(input_shape, layer.plan.input_reduced_axes)

(***************************************************************************)
(* The abs-max codec: quantizers.abs_max_quantize, which quantize() and    *)
(* the LoRA merge call on the kernel, and the division by the scale that   *)
(* dequantizes.  Elements are integers; a scale and a dequantized element  *)
(* are fractions num/den with den > 0, so that the arithmetic is exact.    *)
(***************************************************************************)
\* 1/eps, the stabilizer added to max_abs
EpsilonInverse == 1000
\* the largest int8 value the codec uses
Int8Max == 127

Abs(x) == IF x < 0 THEN 0 - x ELSE x

\* round(num/den) to the nearest integer, a tie to the even one; den > 0
RoundHalfEven(num, den) ==
    LET lo == num \div den
        twice == 2 * (num - lo * den)
    IN IF twice < den THEN lo
       ELSE IF twice > den THEN lo + 1
       ELSE IF lo % 2 = 0 THEN lo ELSE lo + 1

Clip(x, lo, hi) == IF x < lo THEN lo ELSE IF x > hi THEN hi ELSE x

\* the shape of the tensors the codec is given, and their elements
CodecShape == <<2, 2>>
CodecValues == (0 - MaxAbsValue)..MaxAbsValue
CodecTensors == [Indices(CodecShape) -> CodecValues]
CodecAxes == SUBSET {0, 1}

\* the elements reduced together with element idx: those that differ from it
\* along the axes only
Group(idx, axes) ==
    {j \in Indices(CodecShape) : \A k \in DOMAIN CodecShape : (k - 1) \notin axes => j[k] = idx[k]}

SetMax(S) == CHOOSE x \in S : \A y \in S : y <= x

\* max(abs(T)) over the axes, kept per element of the group
MaxAbs(T, axes, idx) == SetMax({Abs(T[j]) : j \in Group(idx, axes)})

\* scale = 127 / (max_abs + eps)
ScaleOf(max_abs) ==
    [num |-> Int8Max * EpsilonInverse, den |-> max_abs * EpsilonInverse + 1]

\* an element with the offset of a zero point added
QuantizeElementWithOffset(v, scale) ==
    Clip(RoundHalfEven(v * scale.num, scale.den) + 1, 0 - Int8Max, Int8Max)

\* clip(round(v * scale), -127, 127)
QuantizeElement(v, scale) ==
    Clip(RoundHalfEven(v * scale.num, scale.den), 0 - Int8Max, Int8Max)

abs_max_quantize(T, axes) ==
    [values |-> [idx \in Indices(CodecShape) |->
                    QuantizeElement(T[idx], ScaleOf(MaxAbs(T, axes, idx)))],
     scale |-> [idx \in Indices(CodecShape) |-> ScaleOf(MaxAbs(T, axes, idx))]]

\* the int8 element times the scale
MultiplyByScale(q, scale) == [num |-> q * scale.num, den |-> scale.den]

\* ops.divide(kernel, kernel_scale), on one element
DivideByScale(q, scale) == [num |-> q * scale.den, den |-> scale.num]

InitCodec ==
    /\ equation = MakeEquation("none", Seq2("a", "b"), Seq2("b", "c"), Seq2("a", "c"))
    /\ bias_axes = PyNone
    /\ input_shape = MakeInputShape("none", Seq2("a", "b"), 0)
    /\ partial_output_shape = MakeOutputShape("none", Seq2("a", "c"), 0)
    /\ cfg = [kernel_constraint |-> FALSE, dtype_policy |-> Float32Policy]
    /\ layer = NewLayer(Float32Policy, 0)
    /\ store = EmptyStore
    /\ last = NoCall(NewLayer(Float32Policy, 0))
    /\ \E T \in CodecTensors, axes \in CodecAxes :
          an = [pc |-> "float", tensor |-> T, axes |-> axes, values |-> NotRun,
                scale |-> NotRun, dequantized |-> NotRun]

AbsMaxQuantize ==
    /\ an.pc = "float"
    /\ \E out \in {abs_max_quantize(an.tensor, an.axes)} :
          an' = [an EXCEPT !.pc = "int8", !.values = out.values, !.scale = out.scale]
    /\ FrameAnalysis

Dequantize ==
    /\ an.pc = "int8"
    /\ an' = [an EXCEPT !.pc = "dequantized",
                        !.dequantized = [idx \in Indices(CodecShape) |->
                                            DivideByScale(an.values[idx], an.scale[idx])]]
    /\ FrameAnalysis

NextCodec == AbsMaxQuantize \/ Dequantize

SpecCodec == InitCodec /\ [][NextCodec]_vars

\* C18: after quantizing and dequantizing, every element lies within
\* max_abs/127 + eps of the element it came from, max_abs taken over the
\* element's group: |num/den - t| <= max_abs/127 + eps, cleared of fractions
\* (|num - t * den| * 127/eps <= (max_abs/eps + 127) * den).
C18_RoundTripWithinOneStep ==
    an.pc = "dequantized" =>
        \A idx \in Indices(CodecShape) :
            LET d == an.dequantized[idx]
                m == MaxAbs(an.tensor, an.axes, idx)
            IN /\ d.den > 0
               /\ Abs(d.num - an.tensor[idx] * d.den)
                     <= ((m * EpsilonInverse + Int8Max) * d.den) \div (Int8Max * EpsilonInverse)

\* a reduction over one axis in which rounding moved an element
C18_Witness ==
    /\ an.pc = "dequantized"
    /\ an.axes = {0}
    /\ \E idx \in Indices(CodecShape) :
          an.dequantized[idx].num # an.tensor[idx] * an.dequantized[idx].den

\* C19: every zero element is quantized to int8 0 and dequantized to exactly 0;
\* an all-zero tensor gives an all-zero int8 tensor and an all-zero result.
C19_ZeroPreserved ==
    \A idx \in Indices(CodecShape) :
        /\ (an.pc \in {"int8", "dequantized"} /\ an.tensor[idx] = 0) => an.values[idx] = 0
        /\ (an.pc = "dequantized" /\ an.tensor[idx] = 0) =>
              (an.dequantized[idx].num = 0 /\ an.dequantized[idx].den # 0)

\* the all-zero tensor, quantized and dequantized
C19_Witness ==
    /\ an.pc = "dequantized"
    /\ \A idx \in Indices(CodecShape) : an.tensor[idx] = 0 /\ an.dequantized[idx].num = 0

\* the int8 representation: an int8 kernel and its scale
Int8Representation(l) ==
    /\ l.kernel.set /\ l.kernel.dtype = "int8"
    /\ l.kernel_scale.set

\* C20: a layer in the int8 representation stays in it under every later call
\* of enable_lora, quantize, save_own_variables and load_own_variables (a
\* forward call assigns nothing): the kernel stays int8 and kernel_scale stays
\* defined.
C20_QuantizationOneWay ==
    [][Int8Representation(layer) => Int8Representation(layer')]_vars

\* a layer constructed in float, quantized, and then loaded from a store
C20_Witness ==
    /\ cfg.dtype_policy = Float32Policy
    /\ last.op = "load" /\ last.err = "none"
    /\ Int8Representation(last.pre)
    /\ store.keys # {} /\ store.t0.dtype = "float"
    /\ layer.kernel.val = store.t0.val

(***************************************************************************)
(* Specification SpecLora: a float32 layer without bias, under build,      *)
(* enable_lora, training steps on the adapter, quantize, save and load.    *)
(***************************************************************************)
\* the adapter weights as a training step leaves them
TrainedA == Seq1("A")
TrainedB == Seq1("B")

InitLora ==
    \E c \in {x \in LayerCases : x.kind = "none"}, lr \in {0} \cup LoraRanks :
        /\ equation = MakeEquation(c.kind, c.i, c.w, c.o)
        /\ bias_axes = PyNone
        /\ input_shape = MakeInputShape(c.kind, c.i, c.e)
        /\ partial_output_shape = MakeOutputShape(c.kind, c.o, c.e)
        /\ cfg = [kernel_constraint |-> FALSE, dtype_policy |-> Float32Policy]
        /\ layer = NewLayer(Float32Policy, lr)
        /\ store = EmptyStore
        /\ last = NoCall(NewLayer(Float32Policy, lr))
        /\ an = AnalysisOff

\* an optimizer step: the trainable adapter weights that enable_lora added are
\* assigned new values
Train ==
    /\ layer.lora_enabled
    /\ layer.lora_kernel_a.trainable /\ layer.lora_kernel_b.trainable
    /\ layer' = [layer EXCEPT !.lora_kernel_a.val = TrainedA, !.lora_kernel_b.val = TrainedB]
    /\ last' = [op |-> "train", err |-> "none", pre |-> layer, mode |-> <<>>, rank |-> 0]
    /\ UNCHANGED store
    /\ Frame

NextLora == Build \/ EnableLora \/ Train \/ Quantize \/ Save \/ Load

SpecLora == InitLora /\ [][NextLora]_vars

\* ops.matmul(lora_kernel_a, lora_kernel_b) is zero when either factor is
ZeroDelta(l) == l.lora_kernel_a.val = Seq1("0") \/ l.lora_kernel_b.val = Seq1("0")

\* the kernel property: self._kernel + matmul(lora_kernel_a, lora_kernel_b) with
\* LoRA enabled, self._kernel without; adding a zero product changes nothing
KernelProperty(l) ==
    IF l.lora_enabled /\ ~ZeroDelta(l) THEN l.kernel.val \o <<"+">> \o LoraDelta(l)
    ELSE l.kernel.val

\* C21: quantize("int8") on a float layer with LoRA enabled quantizes the merged
\* kernel: the int8 kernel is the quantization of the value of the kernel
\* property before the call.
C21_QuantizesMergedKernel ==
    (/\ QuantizeCalled(Int8Mode) /\ last.err = "none"
     /\ last.pre.lora_enabled
     /\ last.pre.kernel.set /\ last.pre.kernel.dtype = "float")
        => layer.kernel.val = <<"q8", "(">> \o KernelProperty(last.pre) \o <<")">>

(***************************************************************************)
(* Specification SpecScale: the analysis as quantize and quantized_build   *)
(* invoke it (with input_spec.ndim), followed by the scales that the int8  *)
(* path makes from its plan: the kernel scale of quantize, the input scale *)
(* of quantized_call and the kernel scale that quantized_build allocates.  *)
(***************************************************************************)
\* quantized_call: inputs_scale after transpose, expand_dims and squeeze; the
\* quantizer of quantize() reduces over input_reduced_axes
QuantizedCallInputsScale(in_shape, plan) ==
    AlignScale(AbsMaxScaleShape(in_shape, plan.input_reduced_axes),
               plan.input_transpose_axes, plan.input_expand_axes, plan.input_squeeze_axes)

\* specs over four labels, so that an operand can have a reduced axis, a kept
\* axis and two expand slots at once
ScaleLabels == ModelLabels \cup {"d"}
ScaleSpecs == {s \in UNION {[1..n -> ScaleLabels] : n \in 1..MaxSpecLen} : Distinct(s)}

InitScale ==
    \E i \in ScaleSpecs, w \in ScaleSpecs, o \in ScaleSpecs :
        /\ Covered(i, w, o)
        /\ equation = MakeEquation("none", i, w, o)
        /\ bias_axes = PyNone
        /\ input_shape = MakeInputShape("none", i, 0)
        /\ partial_output_shape = MakeOutputShape("none", o, 0)
        /\ cfg = [kernel_constraint |-> FALSE, dtype_policy |-> Float32Policy]
        /\ layer = NewLayer(Float32Policy, 0)
        /\ store = EmptyStore
        /\ last = NoCall(NewLayer(Float32Policy, 0))
        /\ an = [pc |-> "start", arg |-> PyInt(Len(input_shape)), shapes |-> NotRun,
                 info |-> NotRun, kernel_scale |-> NotRun, inputs_scale |-> NotRun,
                 allocated_scale |-> NotRun]

ScaleInputs ==
    /\ an.pc = "scaled"
    /\ \E out \in {QuantizedCallInputsScale(input_shape, an.info)} :
          an' = [an EXCEPT !.pc = "descaled", !.inputs_scale = out]
    /\ FrameAnalysis

AllocateScale ==
    /\ an.pc = "descaled"
    /\ \E out \in {QuantizedBuildScaleShape(an.shapes.weight_shape,
                                            an.info.weight_reduced_axes,
                                            an.info.weight_transpose_axes,
                                            an.info.weight_expand_axes,
                                            an.info.weight_squeeze_axes)} :
          an' = [an EXCEPT !.pc = "allocated", !.allocated_scale = out]
    /\ FrameAnalysis

NextScale == AnalyzeEinsum \/ AnalyzeQuantization \/ ScaleKernel \/ ScaleInputs \/ AllocateScale

SpecScale == InitScale /\ [][NextScale]_vars

\* C22: for every accepted equation, the transpose, expand and squeeze steps of
\* quantized_call on the input scale are valid, and the scale they give is laid
\* out like the output: the input's size where the input has the output label,
\* 1 elsewhere.
C22_InputScaleOutputAligned ==
    an.pc \in {"descaled", "allocated"} =>
        /\ an.inputs_scale.ok
        /\ an.inputs_scale.val = OutputAligned(input_shape, an.info.input_spec,
                                               an.info.output_spec)

\* the number of reduced axes of an operand (labels the output lacks) and of its
\* expand slots (output positions whose label the operand lacks)
ReducedCount(operand_spec, output_spec) ==
    Cardinality({k \in DOMAIN operand_spec : operand_spec[k] \notin Range(output_spec)})
SlotCount(operand_spec, output_spec) ==
    Cardinality({p \in DOMAIN output_spec : output_spec[p] \notin Range(operand_spec)})
Fits(operand_spec, output_spec) ==
    ReducedCount(operand_spec, output_spec) <= SlotCount(operand_spec, output_spec)

C24_OneKernelInt8IffScale ==
    layer.built =>
        /\ layer.kernel.set
        /\ Count(layer.weights, "kernel") = 1
        /\ layer.kernel.dtype = "int8" <=> layer.kernel_scale.set
        /\ layer.kernel_scale.set <=> Count(layer.weights, "kernel_scale") = 1
        /\ layer.kernel.dtype = "int8" =>
              /\ ~layer.kernel.trainable
              /\ ~layer.kernel_scale.trainable

\* a layer built with a float kernel, LoRA enabled, and then quantized by quantize
C24_Witness ==
    /\ layer.built
    /\ layer.lora_enabled
    /\ QuantizeCalled(Int8Mode) /\ last.err = "none"
    /\ last.pre.kernel.dtype = "float" /\ Count(last.pre.weights, "kernel") = 1
    /\ layer.kernel.dtype = "int8" /\ layer.kernel_scale.set

(***************************************************************************)
(* The operations that only read the layer, checked under Spec.            *)
(***************************************************************************)
ReadOnlyOps == {"call", "quantized_call", "compute_output_shape", "save"}

\* C25: call, quantized_call, compute_output_shape and save_own_variables (and
\* with it _get_kernel_with_merged_lora) leave the layer as it was: the kernel,
\* kernel_scale, the bias, the LoRA matrices, lora_enabled and the dtype policy
\* are the same after the call, whether it returned or raised; the merged kernel
\* that is saved is not written back.
C25_ReadOnlyOpsLeaveLayer ==
    last.op \in ReadOnlyOps =>
        /\ layer.kernel = last.pre.kernel
        /\ layer.kernel_scale = last.pre.kernel_scale
        /\ layer.bias = last.pre.bias
        /\ layer.lora_kernel_a = last.pre.lora_kernel_a
        /\ layer.lora_kernel_b = last.pre.lora_kernel_b
        /\ layer.lora_enabled = last.pre.lora_enabled
        /\ layer.dtype_policy = last.pre.dtype_policy
        /\ layer = last.pre

\* a save of an int8 layer with LoRA enabled: the store holds the merged kernel,
\* which is not the kernel of the layer
C25_Witness ==
    /\ last.op = "save" /\ last.err = "none"
    /\ last.pre.lora_enabled
    /\ last.pre.kernel.dtype = "int8"
    /\ store.t0.val # last.pre.kernel.val
    /\ "+" \in Range(store.t0.val)
    /\ layer = last.pre

(***************************************************************************)
(* The transpose axes of the quantization plan, checked under SpecAnalysis. *)
(***************************************************************************)
\* C26: for an accepted equation whose specs have no repeated label,
\* input_transpose_axes is a permutation of the input spec's axes and
\* weight_transpose_axes a permutation of the weight spec's axes, with and
\* without the squeeze fallback.
C26_TransposeAxesArePermutations ==
    (an.pc \in {"planned", "scaled"} /\ an.info.ok) =>
        /\ IsPermutation(an.info.input_transpose_axes, Len(an.info.input_spec))
        /\ IsPermutation(an.info.weight_transpose_axes, Len(an.info.weight_spec))

\* an equation for which both loops took the squeeze fallback
C26_Witness ==
    /\ an.pc = "planned" /\ an.info.ok
    /\ an.info.input_squeeze_axes # <<>>
    /\ an.info.weight_squeeze_axes # <<>>
    /\ Len(an.info.input_spec) = MaxSpecLen
    /\ IsPermutation(an.info.input_transpose_axes, MaxSpecLen)

(***************************************************************************)
(* Saving and loading a float layer with LoRA, checked under SpecLora.     *)
(***************************************************************************)
\* the value of a term: a product with a zero matrix adds nothing
RECURSIVE DropZeroDeltas(_)
DropZeroDeltas(t) ==
    IF t = <<>> THEN <<>>
    ELSE IF Len(t) >= 4 /\ t[1] = "+" /\ t[3] = "@" /\ (t[2] = "0" \/ t[4] = "0")
    THEN DropZeroDeltas(SubSeq(t, 5, Len(t)))
    ELSE <<Head(t)>> \o DropZeroDeltas(Tail(t))

\* the value of the kernel property
EffectiveKernel(l) ==
    DropZeroDeltas(IF l.lora_enabled THEN l.kernel.val \o <<"+">> \o LoraDelta(l)
                   ELSE l.kernel.val)

\* the last call loaded the store that a save of the same layer had just written
SavedThenLoaded ==
    /\ last.op = "load" /\ last.err = "none" /\ last.mode = Seq1("store")
    /\ last.pre.lora_enabled
    /\ last.pre.kernel.dtype = "float" /\ ~last.pre.dtype_policy.quantized
    /\ save_own_variables(last.pre).ok
    /\ store = save_own_variables(last.pre).store

\* C27: on a float layer with LoRA enabled, saving and then loading that store
\* into the same layer leaves the effective kernel unchanged: the store holds the
\* merged kernel, the load assigns it to the base kernel and zeroes both LoRA
\* matrices; a further save and load changes nothing more.
C27_SaveLoadKeepsEffectiveKernel ==
    SavedThenLoaded =>
        /\ DropZeroDeltas(store.t0.val) = EffectiveKernel(last.pre)
        /\ layer.kernel.val = store.t0.val
        /\ layer.lora_kernel_a.val = Seq1("0")
        /\ layer.lora_kernel_b.val = Seq1("0")
        /\ EffectiveKernel(layer) = EffectiveKernel(last.pre)
        /\ save_own_variables(layer).ok
        /\ load_own_variables(layer, save_own_variables(layer).store).err = "none"
        /\ EffectiveKernel(load_own_variables(layer, save_own_variables(layer).store).layer)
              = EffectiveKernel(layer)

\* a trained adapter saved and loaded, and the result saved and loaded again
C27_Witness ==
    /\ SavedThenLoaded
    /\ last.pre.lora_kernel_b.val = Seq1("0")
    /\ EffectiveKernel(layer) = Seq1("K") \o <<"+">> \o TrainedA \o <<"@">> \o TrainedB
    /\ layer.kernel.val # EffectiveKernel(layer)

(***************************************************************************)
(* The kernel_scale of quantized_build and of quantize, under SpecScale.   *)
(***************************************************************************)
\* C28: for every accepted equation and kernel shape, the kernel_scale shape that
\* quantized_build allocates is the shape that quantize computes, so that a store
\* saved after quantize can be loaded into a layer built under an int8 policy.
C28_AllocatedScaleMatchesQuantize ==
    an.pc = "allocated" =>
        /\ an.kernel_scale.ok
        /\ an.allocated_scale.ok
        /\ an.allocated_scale.val = an.kernel_scale.val

(***************************************************************************)
(* Specification SpecRanks: enable_lora on float layers with kernels of    *)
(* rank one to MaxSpecLen, by lora_rank at build or by a call after it.    *)
(***************************************************************************)
InitRanks ==
    \E i \in ScaleSpecs, w \in ScaleSpecs, o \in LabelSpecs, lr \in {0} \cup LoraRanks :
        /\ Covered(i, w, o)
        /\ equation = MakeEquation("none", i, w, o)
        /\ bias_axes = PyNone
        /\ input_shape = MakeInputShape("none", i, 0)
        /\ partial_output_shape = MakeOutputShape("none", o, 0)
        /\ cfg = [kernel_constraint |-> FALSE, dtype_policy |-> Float32Policy]
        /\ layer = NewLayer(Float32Policy, lr)
        /\ store = EmptyStore
        /\ last = NoCall(NewLayer(Float32Policy, lr))
        /\ an = AnalysisOff

NextRanks == Build \/ EnableLora

SpecRanks == InitRanks /\ [][NextRanks]_vars

\* the shape of ops.matmul(x, y) for a matrix y: x is a vector or a stack of
\* matrices whose last axis is contracted with the first axis of y
OpsMatmul(x_shape, y_shape) ==
    IF Len(x_shape) = 0 \/ Len(y_shape) # 2 THEN Raise("ValueError")
    ELSE IF x_shape[Len(x_shape)] # y_shape[1] THEN Raise("ValueError")
    ELSE [ok |-> TRUE, val |-> SubSeq(x_shape, 1, Len(x_shape) - 1) \o <<y_shape[2]>>]

\* the last call enabled LoRA: enable_lora itself, or build with a lora_rank
LoraJustEnabled ==
    /\ last.op \in {"enable_lora", "build"} /\ last.err = "none"
    /\ layer.lora_enabled /\ ~last.pre.lora_enabled

\* C29: enable_lora with the default initializers leaves the effective kernel as
\* it was; lora_kernel_a @ lora_kernel_b has the shape of the base kernel,
\* whatever the kernel's rank; the base kernel becomes non-trainable.
C29_EnableLoraKeepsKernel ==
    LoraJustEnabled =>
        /\ EffectiveKernel(layer) = layer.kernel.val
        /\ last.op = "enable_lora" =>
              /\ layer.kernel.val = last.pre.kernel.val
              /\ EffectiveKernel(layer) = EffectiveKernel(last.pre)
        /\ OpsMatmul(layer.lora_kernel_a.shape, layer.lora_kernel_b.shape).ok
        /\ OpsMatmul(layer.lora_kernel_a.shape, layer.lora_kernel_b.shape).val
              = layer.kernel.shape
        /\ ~layer.kernel.trainable
        /\ layer.lora_kernel_a.trainable /\ layer.lora_kernel_b.trainable

\* enable_lora called on a built layer whose kernel is a vector
C29_Witness ==
    /\ LoraJustEnabled
    /\ last.op = "enable_lora"
    /\ last.pre.kernel.trainable
    /\ Len(layer.kernel.shape) = 1
    /\ layer.lora_kernel_a.shape = <<last.rank>>

(***************************************************************************)
(* The labels of the reciprocal equation, checked under SpecAnalysis.      *)
(***************************************************************************)
\* C30: for every equation build accepts, the reciprocal equation
\* "output,weight->input" is a well-formed einsum: every label of the input spec
\* (with the ellipsis expanded) occurs in the output spec or in the weight spec.
C30_ReciprocalWellFormed ==
    (an.pc \in {"planned", "scaled"} /\ an.shapes.ok /\ an.info.ok) =>
        /\ an.info.custom_gradient_equation
              = an.info.output_spec \o <<",">> \o an.info.weight_spec
                    \o <<"-", ">">> \o an.info.input_spec
        /\ Range(an.info.input_spec)
              \subseteq (Range(an.info.output_spec) \cup Range(an.info.weight_spec))

====
